---- MODULE Spec2Model ----
(***************************************************************************)
(* State-machine model of the turn/challenge FSM of src/src/fsm.rs          *)
(* (play_action and its handlers) played over concrete hands and a          *)
(* concrete deck (the Vec<Card> implementations of PlayerCards and Deck).   *)
(***************************************************************************)
EXTENDS Integers, Sequences, FiniteSets, TLC

(***************************************************************************)
(* Program constants (fsm.rs:8-16).                                         *)
(***************************************************************************)
CARDS_PER_PLAYER == 2
MAX_CARDS_TO_EXCHANGE == 2
ASSASSINATION_COST == 3
INCOME == 1
FOREIGN_AID == 2
TAX == 3
MAX_STEAL == 2
COUP_COST == 7
MAX_COINS == 10
INITIAL_COINS == 2

(***************************************************************************)
(* Bounds of the model.                                                     *)
(***************************************************************************)
\* number of turns played from each initial state
MaxTurn == 1

\* number of orders a shuffle chooses from
ShuffleOrders == 2

\* height of the stack of blockers of Game up to which actions are played
MaxBlockers == 3

\* number of actions of Game played from each initial state
MaxSteps == 5

\* number of actions given to a CardsTracker from each deal
MaxObserved == 10

\* number of commands read by an interactive session
MaxCommands == 3

\* number of games asked of the statistics, and of worker threads playing them
MaxNumber == 3

MaxWorkers == 3

(***************************************************************************)
(* Card alphabet (fsm.rs:36-44).  The derived Ord of the enum is the        *)
(* declaration order.                                                       *)
(***************************************************************************)
Card == {"Unknown", "Assassin", "Ambassador", "Captain", "Contessa", "Duke"}

ALL_CARDS == <<"Assassin", "Ambassador", "Captain", "Contessa", "Duke">>

CardOrd(c) ==
    CASE c = "Unknown" -> 0
      [] c = "Assassin" -> 1
      [] c = "Ambassador" -> 2
      [] c = "Captain" -> 3
      [] c = "Contessa" -> 4
      [] c = "Duke" -> 5

(***************************************************************************)
(* Vec<Card> as PlayerCards and as Deck (fsm.rs:153-199).                   *)
(***************************************************************************)
has_card(cards, card) == \E i \in 1..Len(cards) : cards[i] = card

count(cards) == Len(cards)

\* position of the first element equal to card (find_position)
find_position(cards, card) ==
    CHOOSE i \in 1..Len(cards) :
        cards[i] = card /\ \A j \in 1..(i - 1) : cards[j] # card

remove(cards, index) ==
    [i \in 1..(Len(cards) - 1) |-> IF i < index THEN cards[i] ELSE cards[i + 1]]

drop_card(cards, card) == remove(cards, find_position(cards, card))

\* stable insertion of the last element into the sorted prefix, repeated
RECURSIVE sort(_)
sort(cards) ==
    IF Len(cards) <= 1 THEN cards
    ELSE LET init == sort(SubSeq(cards, 1, Len(cards) - 1))
             x == cards[Len(cards)]
             k == Cardinality({i \in 1..Len(init) : CardOrd(init[i]) <= CardOrd(x)})
         IN SubSeq(init, 1, k) \o <<x>> \o SubSeq(init, k + 1, Len(init))

add_card(cards, card) == sort(Append(cards, card))

push_card(deck, card) == Append(deck, card)

\* Vec::pop: the last element is the top of the deck
top_card(deck) == deck[Len(deck)]

pop_rest(deck) == SubSeq(deck, 1, Len(deck) - 1)

\* SliceRandom::shuffle can leave the deck in any order.  The orders drawn
\* here are the first ShuffleOrders rotations of the deck: the order it had,
\* the order with the bottom card on top, and so on.
Shuffles(deck) ==
    {[i \in 1..Len(deck) |-> deck[((i + k - 1) % Len(deck)) + 1]] :
        k \in 0..((IF ShuffleOrders < Len(deck) THEN ShuffleOrders ELSE Len(deck)) - 1)}

(***************************************************************************)
(* Action alphabet (fsm.rs:46-72) and Error (fsm.rs:74-84).                 *)
(***************************************************************************)
TargetKinds == {"Coup", "Assassinate", "Steal"}

CardKinds == {"BlockSteal", "ShowCard", "RevealCard", "DropCard"}

PlainKinds == {"Income", "ForeignAid", "Tax", "Exchange", "BlockForeignAid",
               "BlockAssassination", "PassChallenge", "PassBlock", "Challenge",
               "TakeCard", "ShuffleDeck"}

\* the values of ActionType of one kind, for n players
ActionTypeOf(kind, n) ==
    IF kind \in TargetKinds THEN {[kind |-> kind, target |-> t] : t \in 0..(n - 1)}
    ELSE IF kind \in CardKinds THEN {[kind |-> kind, card |-> c] : c \in Card}
    ELSE {[kind |-> kind]}

ActionType(n) ==
    UNION {ActionTypeOf(kind, n) : kind \in PlainKinds \cup TargetKinds \cup CardKinds}

Action(n) == {[player |-> p, action_type |-> t] : p \in 0..(n - 1), t \in ActionType(n)}

Error == {"InvalidPlayer", "InvalidTarget", "InvalidAction", "InvalidCard",
          "InvalidSource", "NotEnoughCoins", "TooManyCoins", "InactivePlayer"}

(***************************************************************************)
(* StateType (fsm.rs:86-144) and ChallengeState (fsm.rs:701-720) values.    *)
(***************************************************************************)
Turn(player) == [type |-> "Turn", player |-> player]

ForeignAid(player) == [type |-> "ForeignAid", player |-> player]

Tax(player) == [type |-> "Tax", player |-> player]

Exchange(player) == [type |-> "Exchange", player |-> player]

Assassination(player, target, can_challenge) ==
    [type |-> "Assassination", player |-> player, target |-> target,
     can_challenge |-> can_challenge]

Steal(player, target, can_challenge) ==
    [type |-> "Steal", player |-> player, target |-> target,
     can_challenge |-> can_challenge]

Challenge(current_player, source, state) ==
    [type |-> "Challenge", current_player |-> current_player, source |-> source,
     state |-> state]

BlockForeignAid(player, target) ==
    [type |-> "BlockForeignAid", player |-> player, target |-> target]

NeedCards(player, cnt) == [type |-> "NeedCards", player |-> player, count |-> cnt]

TookCards(player, cnt) == [type |-> "TookCards", player |-> player, count |-> cnt]

DroppedCard(player, left) == [type |-> "DroppedCard", player |-> player, left |-> left]

BlockAssassination(player, target) ==
    [type |-> "BlockAssassination", player |-> player, target |-> target]

BlockSteal(player, target, card) ==
    [type |-> "BlockSteal", player |-> player, target |-> target, card |-> card]

LostInfluence(player, current_player) ==
    [type |-> "LostInfluence", player |-> player, current_player |-> current_player]

Initial(initiator, target, card) ==
    [type |-> "Initial", initiator |-> initiator, target |-> target, card |-> card]

ShownCard(initiator, target) ==
    [type |-> "ShownCard", initiator |-> initiator, target |-> target]

InitiatorRevealedCard(target) == [type |-> "InitiatorRevealedCard", target |-> target]

DeckShuffled(target) == [type |-> "DeckShuffled", target |-> target]

TookCard == [type |-> "TookCard"]

TargetRevealedCard == [type |-> "TargetRevealedCard"]

(***************************************************************************)
(* Result values.  A handler gets the fields of State by mutable reference: *)
(* what it wrote before returning stays written, also when it returns Err.  *)
(* `s` below is the State (a record of its seven fields), `value` is the    *)
(* returned StateType or ChallengeState.  "Panic" stands for an unwrap of   *)
(* None or an arithmetic underflow, which abort the call.                   *)
(***************************************************************************)
Ok(s, value) == [err |-> "Ok", s |-> s, value |-> value]

Err(s, e) == [err |-> e, s |-> s, value |-> [type |-> "None"]]

\* slices are indexed from 0 in the program and from 1 here
At(slice, i) == slice[i + 1]

Put(slice, i, v) == [slice EXCEPT ![i + 1] = v]

(***************************************************************************)
(* get_next_player (fsm.rs:694-699).  The loop does not terminate when no   *)
(* player has a card left; that case is reported as the number of players. *)
(***************************************************************************)
RECURSIVE next_player_loop(_, _, _)
next_player_loop(player, player_hands, fuel) ==
    IF fuel = 0 THEN Len(player_hands)
    ELSE IF At(player_hands, (player + 1) % Len(player_hands)) = 0
         THEN next_player_loop(player + 1, player_hands, fuel - 1)
         ELSE (player + 1) % Len(player_hands)

\* get_next_player without the loop over the players that have no card left
get_next_player_unskipped(player, player_hands) ==
    (player + 1) % Len(player_hands)

get_next_player(player, player_hands) ==
    next_player_loop(player, player_hands, Len(player_hands) + 1)

(***************************************************************************)
(* start_exchange (fsm.rs:687-692).                                         *)
(***************************************************************************)
Min(a, b) == IF a < b THEN a ELSE b

\* start_exchange that asks for MAX_CARDS_TO_EXCHANGE cards whatever the deck
\* holds
start_exchange_two_cards(s, player) ==
    Ok(s, NeedCards(player, MAX_CARDS_TO_EXCHANGE))

start_exchange(s, player) ==
    LET cnt == Min(MAX_CARDS_TO_EXCHANGE, count(s.deck))
    IN IF cnt = 0
       THEN Ok(s, Turn(get_next_player(player, s.player_hands)))
       ELSE Ok(s, NeedCards(player, cnt))

(***************************************************************************)
(* on_turn (fsm.rs:267-314).                                                *)
(***************************************************************************)
\* on_turn that lets a player steal from themselves
on_turn_self_steal(s, player, action) ==
    LET kind == action.action_type.kind
        coins == At(s.player_coins, player)
    IN IF player # action.player THEN Err(s, "InvalidPlayer")
       ELSE IF coins >= MAX_COINS /\ kind # "Coup" THEN Err(s, "TooManyCoins")
       ELSE CASE kind = "Income" ->
                   Ok([s EXCEPT !.player_coins = Put(@, player, coins + INCOME)],
                      Turn(get_next_player(player, s.player_hands)))
              [] kind = "ForeignAid" -> Ok(s, ForeignAid(player))
              [] kind = "Tax" -> Ok(s, Tax(player))
              [] kind = "Exchange" -> Ok(s, Exchange(player))
              [] kind = "Coup" ->
                   LET target == action.action_type.target
                   IN IF target = player \/ At(s.player_hands, target) = 0
                      THEN Err(s, "InvalidTarget")
                      ELSE IF coins < COUP_COST THEN Err(s, "NotEnoughCoins")
                      ELSE Ok([s EXCEPT !.player_coins = Put(@, player, coins - COUP_COST)],
                              LostInfluence(target, player))
              [] kind = "Assassinate" ->
                   LET target == action.action_type.target
                   IN IF target = player \/ At(s.player_hands, target) = 0
                      THEN Err(s, "InvalidTarget")
                      ELSE IF coins < ASSASSINATION_COST THEN Err(s, "NotEnoughCoins")
                      ELSE Ok([s EXCEPT !.player_coins =
                                            Put(@, player, coins - ASSASSINATION_COST)],
                              Assassination(player, target, TRUE))
              [] kind = "Steal" ->
                   LET target == action.action_type.target
                   IN IF At(s.player_hands, target) = 0
                      THEN Err(s, "InvalidTarget")
                      ELSE Ok(s, Steal(player, target, TRUE))
              [] OTHER -> Err(s, "InvalidAction")

\* on_turn that asks the price of a Coup before an Assassinate
on_turn_dear_assassination(s, player, action) ==
    LET kind == action.action_type.kind
        coins == At(s.player_coins, player)
    IN IF player # action.player THEN Err(s, "InvalidPlayer")
       ELSE IF coins >= MAX_COINS /\ kind # "Coup" THEN Err(s, "TooManyCoins")
       ELSE CASE kind = "Income" ->
                   Ok([s EXCEPT !.player_coins = Put(@, player, coins + INCOME)],
                      Turn(get_next_player(player, s.player_hands)))
              [] kind = "ForeignAid" -> Ok(s, ForeignAid(player))
              [] kind = "Tax" -> Ok(s, Tax(player))
              [] kind = "Exchange" -> Ok(s, Exchange(player))
              [] kind = "Coup" ->
                   LET target == action.action_type.target
                   IN IF target = player \/ At(s.player_hands, target) = 0
                      THEN Err(s, "InvalidTarget")
                      ELSE IF coins < COUP_COST THEN Err(s, "NotEnoughCoins")
                      ELSE Ok([s EXCEPT !.player_coins = Put(@, player, coins - COUP_COST)],
                              LostInfluence(target, player))
              [] kind = "Assassinate" ->
                   LET target == action.action_type.target
                   IN IF target = player \/ At(s.player_hands, target) = 0
                      THEN Err(s, "InvalidTarget")
                      ELSE IF coins < COUP_COST THEN Err(s, "NotEnoughCoins")
                      ELSE Ok([s EXCEPT !.player_coins =
                                            Put(@, player, coins - ASSASSINATION_COST)],
                              Assassination(player, target, TRUE))
              [] kind = "Steal" ->
                   LET target == action.action_type.target
                   IN IF target = player \/ At(s.player_hands, target) = 0
                      THEN Err(s, "InvalidTarget")
                      ELSE Ok(s, Steal(player, target, TRUE))
              [] OTHER -> Err(s, "InvalidAction")

\* on_turn that demands a Coup only above MAX_COINS
on_turn_above_max(s, player, action) ==
    LET kind == action.action_type.kind
        coins == At(s.player_coins, player)
    IN IF player # action.player THEN Err(s, "InvalidPlayer")
       ELSE IF coins > MAX_COINS /\ kind # "Coup" THEN Err(s, "TooManyCoins")
       ELSE CASE kind = "Income" ->
                   Ok([s EXCEPT !.player_coins = Put(@, player, coins + INCOME)],
                      Turn(get_next_player(player, s.player_hands)))
              [] kind = "ForeignAid" -> Ok(s, ForeignAid(player))
              [] kind = "Tax" -> Ok(s, Tax(player))
              [] kind = "Exchange" -> Ok(s, Exchange(player))
              [] kind = "Coup" ->
                   LET target == action.action_type.target
                   IN IF target = player \/ At(s.player_hands, target) = 0
                      THEN Err(s, "InvalidTarget")
                      ELSE IF coins < COUP_COST THEN Err(s, "NotEnoughCoins")
                      ELSE Ok([s EXCEPT !.player_coins = Put(@, player, coins - COUP_COST)],
                              LostInfluence(target, player))
              [] kind = "Assassinate" ->
                   LET target == action.action_type.target
                   IN IF target = player \/ At(s.player_hands, target) = 0
                      THEN Err(s, "InvalidTarget")
                      ELSE IF coins < ASSASSINATION_COST THEN Err(s, "NotEnoughCoins")
                      ELSE Ok([s EXCEPT !.player_coins =
                                            Put(@, player, coins - ASSASSINATION_COST)],
                              Assassination(player, target, TRUE))
              [] kind = "Steal" ->
                   LET target == action.action_type.target
                   IN IF target = player \/ At(s.player_hands, target) = 0
                      THEN Err(s, "InvalidTarget")
                      ELSE Ok(s, Steal(player, target, TRUE))
              [] OTHER -> Err(s, "InvalidAction")

on_turn(s, player, action) ==
    LET kind == action.action_type.kind
        coins == At(s.player_coins, player)
    IN IF player # action.player THEN Err(s, "InvalidPlayer")
       ELSE IF coins >= MAX_COINS /\ kind # "Coup" THEN Err(s, "TooManyCoins")
       ELSE CASE kind = "Income" ->
                   Ok([s EXCEPT !.player_coins = Put(@, player, coins + INCOME)],
                      Turn(get_next_player(player, s.player_hands)))
              [] kind = "ForeignAid" -> Ok(s, ForeignAid(player))
              [] kind = "Tax" -> Ok(s, Tax(player))
              [] kind = "Exchange" -> Ok(s, Exchange(player))
              [] kind = "Coup" ->
                   LET target == action.action_type.target
                   IN IF target = player \/ At(s.player_hands, target) = 0
                      THEN Err(s, "InvalidTarget")
                      ELSE IF coins < COUP_COST THEN Err(s, "NotEnoughCoins")
                      ELSE Ok([s EXCEPT !.player_coins = Put(@, player, coins - COUP_COST)],
                              LostInfluence(target, player))
              [] kind = "Assassinate" ->
                   LET target == action.action_type.target
                   IN IF target = player \/ At(s.player_hands, target) = 0
                      THEN Err(s, "InvalidTarget")
                      ELSE IF coins < ASSASSINATION_COST THEN Err(s, "NotEnoughCoins")
                      ELSE Ok([s EXCEPT !.player_coins =
                                            Put(@, player, coins - ASSASSINATION_COST)],
                              Assassination(player, target, TRUE))
              [] kind = "Steal" ->
                   LET target == action.action_type.target
                   IN IF target = player \/ At(s.player_hands, target) = 0
                      THEN Err(s, "InvalidTarget")
                      ELSE Ok(s, Steal(player, target, TRUE))
              [] OTHER -> Err(s, "InvalidAction")

(***************************************************************************)
(* on_foreign_aid (fsm.rs:316-334).                                         *)
(***************************************************************************)
\* on_foreign_aid without the comparison of the blocker with the actor
on_foreign_aid_self_block(s, player, action) ==
    LET kind == action.action_type.kind
    IN CASE kind = "PassBlock" ->
              IF player # action.player THEN Err(s, "InvalidPlayer")
              ELSE Ok([s EXCEPT !.player_coins =
                                    Put(@, player, At(@, player) + FOREIGN_AID)],
                      Turn(get_next_player(player, s.player_hands)))
         [] kind = "BlockForeignAid" ->
              Ok(s, BlockForeignAid(action.player, player))
         [] OTHER -> Err(s, "InvalidAction")

\* on_foreign_aid that lets the foreign aid be challenged
on_foreign_aid_challenged(s, player, action) ==
    LET kind == action.action_type.kind
    IN CASE kind = "PassBlock" ->
              IF player # action.player THEN Err(s, "InvalidPlayer")
              ELSE Ok([s EXCEPT !.player_coins =
                                    Put(@, player, At(@, player) + FOREIGN_AID)],
                      Turn(get_next_player(player, s.player_hands)))
         [] kind = "BlockForeignAid" ->
              IF player = action.player THEN Err(s, "InvalidTarget")
              ELSE Ok(s, BlockForeignAid(action.player, player))
         [] kind = "Challenge" ->
              IF player = action.player THEN Err(s, "InvalidTarget")
              ELSE Ok(s, Challenge(player, ForeignAid(player),
                                   Initial(action.player, player, "Duke")))
         [] OTHER -> Err(s, "InvalidAction")

on_foreign_aid(s, player, action) ==
    LET kind == action.action_type.kind
    IN CASE kind = "PassBlock" ->
              IF player # action.player THEN Err(s, "InvalidPlayer")
              ELSE Ok([s EXCEPT !.player_coins =
                                    Put(@, player, At(@, player) + FOREIGN_AID)],
                      Turn(get_next_player(player, s.player_hands)))
         [] kind = "BlockForeignAid" ->
              IF player = action.player THEN Err(s, "InvalidTarget")
              ELSE Ok(s, BlockForeignAid(action.player, player))
         [] OTHER -> Err(s, "InvalidAction")

(***************************************************************************)
(* on_tax (fsm.rs:336-358).                                                 *)
(***************************************************************************)
\* on_tax that credits the tax twice
on_tax_twice(s, player, action) ==
    LET kind == action.action_type.kind
    IN CASE kind = "PassChallenge" ->
              IF player # action.player THEN Err(s, "InvalidPlayer")
              ELSE Ok([s EXCEPT !.player_coins = Put(@, player, At(@, player) + TAX + TAX)],
                      Turn(get_next_player(player, s.player_hands)))
         [] kind = "Challenge" ->
              IF player = action.player THEN Err(s, "InvalidTarget")
              ELSE Ok(s, Challenge(player, Tax(player),
                                   Initial(action.player, player, "Duke")))
         [] OTHER -> Err(s, "InvalidAction")

on_tax(s, player, action) ==
    LET kind == action.action_type.kind
    IN CASE kind = "PassChallenge" ->
              IF player # action.player THEN Err(s, "InvalidPlayer")
              ELSE Ok([s EXCEPT !.player_coins = Put(@, player, At(@, player) + TAX)],
                      Turn(get_next_player(player, s.player_hands)))
         [] kind = "Challenge" ->
              IF player = action.player THEN Err(s, "InvalidTarget")
              ELSE Ok(s, Challenge(player, Tax(player),
                                   Initial(action.player, player, "Duke")))
         [] OTHER -> Err(s, "InvalidAction")

(***************************************************************************)
(* on_exchange (fsm.rs:360-381).                                            *)
(***************************************************************************)
on_exchange(s, player, action) ==
    LET kind == action.action_type.kind
    IN CASE kind = "PassChallenge" ->
              IF player # action.player THEN Err(s, "InvalidPlayer")
              ELSE start_exchange(s, player)
         [] kind = "Challenge" ->
              IF player = action.player THEN Err(s, "InvalidTarget")
              ELSE Ok(s, Challenge(player, Exchange(player),
                                   Initial(action.player, player, "Ambassador")))
         [] OTHER -> Err(s, "InvalidAction")

(***************************************************************************)
(* on_assassination (fsm.rs:383-426).                                       *)
(***************************************************************************)
\* on_assassination whose PassBlock takes a card of a target without cards
on_assassination_of_eliminated(s, player, target, can_challenge, action) ==
    LET kind == action.action_type.kind
    IN IF can_challenge
       THEN CASE kind = "PassChallenge" ->
                   IF player # action.player THEN Err(s, "InvalidPlayer")
                   ELSE Ok(s, Assassination(player, target, FALSE))
              [] kind = "Challenge" ->
                   IF player = action.player THEN Err(s, "InvalidTarget")
                   ELSE Ok(s, Challenge(player, Assassination(player, target, TRUE),
                                        Initial(action.player, player, "Assassin")))
              [] OTHER -> Err(s, "InvalidAction")
       ELSE CASE kind = "PassBlock" ->
                   IF player # action.player THEN Err(s, "InvalidPlayer")
                   ELSE Ok(s, LostInfluence(target, player))
              [] kind = "BlockAssassination" ->
                   IF player = action.player \/ target # action.player
                   THEN Err(s, "InvalidTarget")
                   ELSE Ok(s, BlockAssassination(action.player, player))
              [] OTHER -> Err(s, "InvalidAction")

on_assassination(s, player, target, can_challenge, action) ==
    LET kind == action.action_type.kind
    IN IF can_challenge
       THEN CASE kind = "PassChallenge" ->
                   IF player # action.player THEN Err(s, "InvalidPlayer")
                   ELSE Ok(s, Assassination(player, target, FALSE))
              [] kind = "Challenge" ->
                   IF player = action.player THEN Err(s, "InvalidTarget")
                   ELSE Ok(s, Challenge(player, Assassination(player, target, TRUE),
                                        Initial(action.player, player, "Assassin")))
              [] OTHER -> Err(s, "InvalidAction")
       ELSE CASE kind = "PassBlock" ->
                   IF player # action.player THEN Err(s, "InvalidPlayer")
                   ELSE IF At(s.player_hands, target) = 0
                        THEN Ok(s, Turn(get_next_player(player, s.player_hands)))
                        ELSE Ok(s, LostInfluence(target, player))
              [] kind = "BlockAssassination" ->
                   IF player = action.player \/ target # action.player
                   THEN Err(s, "InvalidTarget")
                   ELSE Ok(s, BlockAssassination(action.player, player))
              [] OTHER -> Err(s, "InvalidAction")

(***************************************************************************)
(* on_steal (fsm.rs:428-473).                                               *)
(***************************************************************************)
\* on_steal that takes MAX_STEAL coins whatever the target holds
on_steal_always_two(s, player, target, can_challenge, action) ==
    LET kind == action.action_type.kind
    IN IF can_challenge
       THEN CASE kind = "PassChallenge" ->
                   IF player # action.player THEN Err(s, "InvalidPlayer")
                   ELSE Ok(s, Steal(player, target, FALSE))
              [] kind = "Challenge" ->
                   IF player = action.player THEN Err(s, "InvalidTarget")
                   ELSE Ok(s, Challenge(player, Steal(player, target, TRUE),
                                        Initial(action.player, player, "Captain")))
              [] OTHER -> Err(s, "InvalidAction")
       ELSE CASE kind = "PassBlock" ->
                   IF player # action.player THEN Err(s, "InvalidPlayer")
                   ELSE LET coins == MAX_STEAL
                            taken == Put(s.player_coins, target,
                                         At(s.player_coins, target) - coins)
                            given == Put(taken, player, At(taken, player) + coins)
                        IN Ok([s EXCEPT !.player_coins = given],
                              Turn(get_next_player(player, s.player_hands)))
              [] kind = "BlockSteal" ->
                   IF player = action.player \/ target # action.player
                   THEN Err(s, "InvalidTarget")
                   ELSE IF action.action_type.card \notin {"Ambassador", "Captain"}
                        THEN Err(s, "InvalidCard")
                        ELSE Ok(s, BlockSteal(action.player, player,
                                              action.action_type.card))
              [] OTHER -> Err(s, "InvalidAction")

on_steal(s, player, target, can_challenge, action) ==
    LET kind == action.action_type.kind
    IN IF can_challenge
       THEN CASE kind = "PassChallenge" ->
                   IF player # action.player THEN Err(s, "InvalidPlayer")
                   ELSE Ok(s, Steal(player, target, FALSE))
              [] kind = "Challenge" ->
                   IF player = action.player THEN Err(s, "InvalidTarget")
                   ELSE Ok(s, Challenge(player, Steal(player, target, TRUE),
                                        Initial(action.player, player, "Captain")))
              [] OTHER -> Err(s, "InvalidAction")
       ELSE CASE kind = "PassBlock" ->
                   IF player # action.player THEN Err(s, "InvalidPlayer")
                   ELSE LET coins == Min(At(s.player_coins, target), MAX_STEAL)
                            taken == Put(s.player_coins, target,
                                         At(s.player_coins, target) - coins)
                            given == Put(taken, player, At(taken, player) + coins)
                        IN Ok([s EXCEPT !.player_coins = given],
                              Turn(get_next_player(player, s.player_hands)))
              [] kind = "BlockSteal" ->
                   IF player = action.player \/ target # action.player
                   THEN Err(s, "InvalidTarget")
                   ELSE IF action.action_type.card \notin {"Ambassador", "Captain"}
                        THEN Err(s, "InvalidCard")
                        ELSE Ok(s, BlockSteal(action.player, player,
                                              action.action_type.card))
              [] OTHER -> Err(s, "InvalidAction")

(***************************************************************************)
(* on_block_foreign_aid (fsm.rs:524-545), on_block_assassination            *)
(* (fsm.rs:619-640), on_block_steal (fsm.rs:642-663).                       *)
(***************************************************************************)
\* on_block_foreign_aid whose PassChallenge lets the foreign aid be blocked
\* again
on_block_foreign_aid_reopened(s, player, target, action) ==
    LET kind == action.action_type.kind
    IN CASE kind = "PassChallenge" ->
              IF player # action.player THEN Err(s, "InvalidPlayer")
              ELSE Ok(s, ForeignAid(target))
         [] kind = "Challenge" ->
              IF player = action.player THEN Err(s, "InvalidTarget")
              ELSE Ok(s, Challenge(target, BlockForeignAid(player, target),
                                   Initial(action.player, player, "Duke")))
         [] OTHER -> Err(s, "InvalidAction")

on_block_foreign_aid(s, player, target, action) ==
    LET kind == action.action_type.kind
    IN CASE kind = "PassChallenge" ->
              IF player # action.player THEN Err(s, "InvalidPlayer")
              ELSE Ok(s, Turn(get_next_player(target, s.player_hands)))
         [] kind = "Challenge" ->
              IF player = action.player THEN Err(s, "InvalidTarget")
              ELSE Ok(s, Challenge(target, BlockForeignAid(player, target),
                                   Initial(action.player, player, "Duke")))
         [] OTHER -> Err(s, "InvalidAction")

on_block_assassination(s, player, target, action) ==
    LET kind == action.action_type.kind
    IN CASE kind = "PassChallenge" ->
              IF player # action.player THEN Err(s, "InvalidPlayer")
              ELSE Ok(s, Turn(get_next_player(target, s.player_hands)))
         [] kind = "Challenge" ->
              IF player = action.player THEN Err(s, "InvalidPlayer")
              ELSE Ok(s, Challenge(target, BlockAssassination(player, target),
                                   Initial(action.player, player, "Contessa")))
         [] OTHER -> Err(s, "InvalidAction")

on_block_steal(s, player, target, card, action) ==
    LET kind == action.action_type.kind
    IN CASE kind = "PassChallenge" ->
              IF player # action.player THEN Err(s, "InvalidPlayer")
              ELSE Ok(s, Turn(get_next_player(target, s.player_hands)))
         [] kind = "Challenge" ->
              IF player = action.player THEN Err(s, "InvalidPlayer")
              ELSE Ok(s, Challenge(target, BlockSteal(player, target, card),
                                   Initial(action.player, player, card)))
         [] OTHER -> Err(s, "InvalidAction")

(***************************************************************************)
(* State updates shared by the card handlers: the statements               *)
(*   player_cards[p].drop_card(c); player_hands[p] -= 1;                    *)
(*   player_cards_counter[p] -= 1; revealed_cards.push(c)                   *)
(* of fsm.rs:677-680, 767-770 and 789-792, the statements of fsm.rs:581-583 *)
(* and 758-760 (card back to the deck) and of fsm.rs:557-558 and 824-825    *)
(* (card from the deck).  A subtraction from 0 and a pop from an empty deck *)
(* abort the call.                                                          *)
(***************************************************************************)
CanLoseInfluence(s, p) ==
    At(s.player_hands, p) > 0 /\ At(s.player_cards_counter, p) > 0

\* LoseInfluence without player_hands[p] -= 1
LoseInfluence_keeping_hand(s, p, card) ==
    [s EXCEPT !.player_cards = Put(@, p, drop_card(At(@, p), card)),
              !.player_cards_counter = Put(@, p, At(@, p) - 1),
              !.revealed_cards = Append(@, card)]

LoseInfluence(s, p, card) ==
    [s EXCEPT !.player_cards = Put(@, p, drop_card(At(@, p), card)),
              !.player_hands = Put(@, p, At(@, p) - 1),
              !.player_cards_counter = Put(@, p, At(@, p) - 1),
              !.revealed_cards = Append(@, card)]

\* ReturnCard without player_cards_counter[p] -= 1
ReturnCard_uncounted(s, p, card) ==
    [s EXCEPT !.player_cards = Put(@, p, drop_card(At(@, p), card)),
              !.deck = push_card(@, card)]

ReturnCard(s, p, card) ==
    [s EXCEPT !.player_cards = Put(@, p, drop_card(At(@, p), card)),
              !.player_cards_counter = Put(@, p, At(@, p) - 1),
              !.deck = push_card(@, card)]

\* DrawCard that copies the top card and leaves it on the deck
DrawCard_keeping_deck(s, p) ==
    [s EXCEPT !.player_cards = Put(@, p, add_card(At(@, p), top_card(s.deck))),
              !.player_cards_counter = Put(@, p, At(@, p) + 1)]

\* DrawCard without player_cards_counter[p] += 1
DrawCard_uncounted(s, p) ==
    [s EXCEPT !.player_cards = Put(@, p, add_card(At(@, p), top_card(s.deck))),
              !.deck = pop_rest(@)]

DrawCard(s, p) ==
    [s EXCEPT !.player_cards = Put(@, p, add_card(At(@, p), top_card(s.deck))),
              !.deck = pop_rest(@),
              !.player_cards_counter = Put(@, p, At(@, p) + 1)]

(***************************************************************************)
(* on_need_cards (fsm.rs:547-567).                                          *)
(***************************************************************************)
\* on_need_cards that looks at the kind of the action before its player
on_need_cards_kind_first(s, player, cnt, action) ==
    IF action.action_type.kind = "TakeCard"
    THEN IF player # action.player THEN Err(s, "InvalidPlayer")
         ELSE IF count(s.deck) = 0 THEN Err(s, "Panic")
              ELSE LET t == DrawCard(s, player)
                   IN IF cnt = 1
                      THEN IF At(t.player_cards_counter, player) < At(t.player_hands, player)
                           THEN Err(t, "Panic")
                           ELSE Ok(t, TookCards(player,
                                       At(t.player_cards_counter, player)
                                         - At(t.player_hands, player)))
                      ELSE Ok(t, NeedCards(player, cnt - 1))
    ELSE Err(s, "InvalidAction")

\* on_need_cards that asks MAX_CARDS_TO_EXCHANGE cards back whatever was drawn
on_need_cards_two_back(s, player, cnt, action) ==
    IF player # action.player THEN Err(s, "InvalidPlayer")
    ELSE IF action.action_type.kind = "TakeCard"
         THEN IF count(s.deck) = 0 THEN Err(s, "Panic")
              ELSE LET t == DrawCard(s, player)
                   IN IF cnt = 1
                      THEN Ok(t, TookCards(player, MAX_CARDS_TO_EXCHANGE))
                      ELSE Ok(t, NeedCards(player, cnt - 1))
         ELSE Err(s, "InvalidAction")

on_need_cards(s, player, cnt, action) ==
    IF player # action.player THEN Err(s, "InvalidPlayer")
    ELSE IF action.action_type.kind = "TakeCard"
         THEN IF count(s.deck) = 0 THEN Err(s, "Panic")
              ELSE LET t == DrawCard(s, player)
                   IN IF cnt = 1
                      THEN IF At(t.player_cards_counter, player) < At(t.player_hands, player)
                           THEN Err(t, "Panic")
                           ELSE Ok(t, TookCards(player,
                                       At(t.player_cards_counter, player)
                                         - At(t.player_hands, player)))
                      ELSE Ok(t, NeedCards(player, cnt - 1))
         ELSE Err(s, "InvalidAction")

(***************************************************************************)
(* on_took_cards (fsm.rs:569-592) and on_dropped_cards (fsm.rs:594-617).    *)
(***************************************************************************)
\* on_took_cards that ends the exchange with the first card returned
on_took_cards_one_back(s, player, cnt, action) ==
    IF action.action_type.kind = "DropCard"
    THEN LET card == action.action_type.card
         IN IF player # action.player THEN Err(s, "InvalidPlayer")
            ELSE IF ~has_card(At(s.player_cards, player), card) THEN Err(s, "InvalidCard")
            ELSE IF At(s.player_cards_counter, player) = 0 THEN Err(s, "Panic")
            ELSE LET t == ReturnCard(s, player, card)
                 IN Ok(t, Turn(get_next_player(player, t.player_hands)))
    ELSE Err(s, "InvalidAction")

\* on_took_cards that goes on in DroppedCard after the first card
on_took_cards_then_dropped(s, player, cnt, action) ==
    IF action.action_type.kind = "DropCard"
    THEN LET card == action.action_type.card
         IN IF player # action.player THEN Err(s, "InvalidPlayer")
            ELSE IF ~has_card(At(s.player_cards, player), card) THEN Err(s, "InvalidCard")
            ELSE IF At(s.player_cards_counter, player) = 0 THEN Err(s, "Panic")
            ELSE LET t == ReturnCard(s, player, card)
                 IN IF cnt = 1
                    THEN Ok(t, Turn(get_next_player(player, t.player_hands)))
                    ELSE IF cnt = 0 THEN Err(t, "Panic")
                    ELSE Ok(t, DroppedCard(player, cnt - 1))
    ELSE Err(s, "InvalidAction")

on_took_cards(s, player, cnt, action) ==
    IF action.action_type.kind = "DropCard"
    THEN LET card == action.action_type.card
         IN IF player # action.player THEN Err(s, "InvalidPlayer")
            ELSE IF ~has_card(At(s.player_cards, player), card) THEN Err(s, "InvalidCard")
            ELSE IF At(s.player_cards_counter, player) = 0 THEN Err(s, "Panic")
            ELSE LET t == ReturnCard(s, player, card)
                 IN IF cnt = 1
                    THEN Ok(t, Turn(get_next_player(player, t.player_hands)))
                    ELSE IF cnt = 0 THEN Err(t, "Panic")
                    ELSE Ok(t, TookCards(player, cnt - 1))
    ELSE Err(s, "InvalidAction")

on_dropped_cards(s, player, left, action) ==
    IF action.action_type.kind = "DropCard"
    THEN LET card == action.action_type.card
         IN IF player # action.player THEN Err(s, "InvalidPlayer")
            ELSE IF ~has_card(At(s.player_cards, player), card) THEN Err(s, "InvalidCard")
            ELSE IF At(s.player_cards_counter, player) = 0 THEN Err(s, "Panic")
            ELSE LET t == ReturnCard(s, player, card)
                 IN IF left = 1
                    THEN Ok(t, Turn(get_next_player(player, t.player_hands)))
                    ELSE IF left = 0 THEN Err(t, "Panic")
                    ELSE Ok(t, DroppedCard(player, left - 1))
    ELSE Err(s, "InvalidAction")

(***************************************************************************)
(* on_lost_influence (fsm.rs:665-685).                                      *)
(***************************************************************************)
on_lost_influence(s, player, current_turn_player, action) ==
    IF action.action_type.kind = "RevealCard"
    THEN LET card == action.action_type.card
         IN IF player # action.player THEN Err(s, "InvalidPlayer")
            ELSE IF ~has_card(At(s.player_cards, player), card) THEN Err(s, "InvalidCard")
            ELSE IF ~CanLoseInfluence(s, player) THEN Err(s, "Panic")
            ELSE LET t == LoseInfluence(s, player, card)
                 IN Ok(t, Turn(get_next_player(current_turn_player, t.player_hands)))
    ELSE Err(s, "InvalidAction")

(***************************************************************************)
(* The challenge sub-machine: on_challenge_initial (fsm.rs:745-775),        *)
(* on_challenge_shown_card (fsm.rs:777-797),                                *)
(* on_challenge_initiator_revealed_card (fsm.rs:799-813; `shuffled` is the  *)
(* order the rng leaves the deck in), on_challenge_deck_shuffled            *)
(* (fsm.rs:815-830) and play_challenge_action (fsm.rs:722-743).             *)
(***************************************************************************)
\* on_challenge_initial in which showing the claimed card costs the influence
\* as well
on_challenge_initial_show_costs(s, initiator, target, card, action) ==
    LET kind == action.action_type.kind
    IN IF target # action.player THEN Err(s, "InvalidPlayer")
       ELSE CASE kind = "ShowCard" ->
                   IF action.action_type.card # card
                      \/ ~has_card(At(s.player_cards, target), card)
                   THEN Err(s, "InvalidCard")
                   ELSE IF At(s.player_cards_counter, target) = 0 THEN Err(s, "Panic")
                   ELSE Ok([ReturnCard(s, target, card) EXCEPT
                               !.player_hands = Put(@, target, At(@, target) - 1)],
                           ShownCard(initiator, target))
              [] kind = "RevealCard" ->
                   IF ~has_card(At(s.player_cards, target), action.action_type.card)
                   THEN Err(s, "InvalidCard")
                   ELSE IF ~CanLoseInfluence(s, target) THEN Err(s, "Panic")
                   ELSE Ok(LoseInfluence(s, target, action.action_type.card),
                           TargetRevealedCard)
              [] OTHER -> Err(s, "InvalidAction")

on_challenge_initial(s, initiator, target, card, action) ==
    LET kind == action.action_type.kind
    IN IF target # action.player THEN Err(s, "InvalidPlayer")
       ELSE CASE kind = "ShowCard" ->
                   IF action.action_type.card # card
                      \/ ~has_card(At(s.player_cards, target), card)
                   THEN Err(s, "InvalidCard")
                   ELSE IF At(s.player_cards_counter, target) = 0 THEN Err(s, "Panic")
                   ELSE Ok(ReturnCard(s, target, card), ShownCard(initiator, target))
              [] kind = "RevealCard" ->
                   IF ~has_card(At(s.player_cards, target), action.action_type.card)
                   THEN Err(s, "InvalidCard")
                   ELSE IF ~CanLoseInfluence(s, target) THEN Err(s, "Panic")
                   ELSE Ok(LoseInfluence(s, target, action.action_type.card),
                           TargetRevealedCard)
              [] OTHER -> Err(s, "InvalidAction")

\* on_challenge_shown_card that takes the card of the target, not of the
\* initiator
on_challenge_shown_card_by_target(s, initiator, target, action) ==
    IF target # action.player THEN Err(s, "InvalidPlayer")
    ELSE IF action.action_type.kind = "RevealCard"
         THEN IF ~has_card(At(s.player_cards, target), action.action_type.card)
              THEN Err(s, "InvalidCard")
              ELSE IF ~CanLoseInfluence(s, target) THEN Err(s, "Panic")
              ELSE Ok(LoseInfluence(s, target, action.action_type.card),
                      InitiatorRevealedCard(target))
         ELSE Err(s, "InvalidAction")

on_challenge_shown_card(s, initiator, target, action) ==
    IF initiator # action.player THEN Err(s, "InvalidPlayer")
    ELSE IF action.action_type.kind = "RevealCard"
         THEN IF ~has_card(At(s.player_cards, initiator), action.action_type.card)
              THEN Err(s, "InvalidCard")
              ELSE IF ~CanLoseInfluence(s, initiator) THEN Err(s, "Panic")
              ELSE Ok(LoseInfluence(s, initiator, action.action_type.card),
                      InitiatorRevealedCard(target))
         ELSE Err(s, "InvalidAction")

on_challenge_initiator_revealed_card(s, target, action, shuffled) ==
    IF target # action.player THEN Err(s, "InvalidPlayer")
    ELSE IF action.action_type.kind = "ShuffleDeck"
         THEN Ok([s EXCEPT !.deck = shuffled], DeckShuffled(target))
         ELSE Err(s, "InvalidAction")

on_challenge_deck_shuffled(s, target, action) ==
    IF target # action.player THEN Err(s, "InvalidPlayer")
    ELSE IF action.action_type.kind = "TakeCard"
         THEN IF count(s.deck) = 0 THEN Err(s, "Panic")
              ELSE Ok(DrawCard(s, target), TookCard)
         ELSE Err(s, "InvalidAction")

play_challenge_action(s, state, action, shuffled) ==
    CASE state.type = "Initial" ->
           on_challenge_initial(s, state.initiator, state.target, state.card, action)
      [] state.type = "ShownCard" ->
           on_challenge_shown_card(s, state.initiator, state.target, action)
      [] state.type = "InitiatorRevealedCard" ->
           on_challenge_initiator_revealed_card(s, state.target, action, shuffled)
      [] state.type = "DeckShuffled" ->
           on_challenge_deck_shuffled(s, state.target, action)
      [] OTHER -> Err(s, "InvalidAction")

(***************************************************************************)
(* on_challenge (fsm.rs:475-522): the step of the sub-machine, then, when   *)
(* it ended, the resumption of the source: after TookCard (fsm.rs:482-501)  *)
(* and after TargetRevealedCard (fsm.rs:502-517).  `t` is the State as the  *)
(* step of the sub-machine left it.                                         *)
(***************************************************************************)
\* resume_took_card that advances the turn after a proved Tax without the
\* coins of the tax
resume_took_card_untaxed(t, current_player, source) ==
    CASE source.type \in {"Tax", "BlockForeignAid", "BlockAssassination", "BlockSteal"} ->
           Ok(t, Turn(get_next_player(current_player, t.player_hands)))
      [] source.type = "Exchange" -> start_exchange(t, source.player)
      [] source.type = "Assassination" ->
           Ok(t, Assassination(source.player, source.target, FALSE))
      [] source.type = "Steal" ->
           Ok(t, Steal(source.player, source.target, FALSE))
      [] OTHER -> Err(t, "InvalidSource")

\* resume_took_card that reopens the challenge window of a proved
\* Assassination or Steal
resume_took_card_reopened(t, current_player, source) ==
    CASE source.type = "Tax" ->
           Ok([t EXCEPT !.player_coins =
                            Put(@, source.player, At(@, source.player) + TAX)],
              Turn(get_next_player(current_player, t.player_hands)))
      [] source.type \in {"BlockForeignAid", "BlockAssassination", "BlockSteal"} ->
           Ok(t, Turn(get_next_player(current_player, t.player_hands)))
      [] source.type = "Exchange" -> start_exchange(t, source.player)
      [] source.type \in {"Assassination", "Steal"} -> Ok(t, source)
      [] OTHER -> Err(t, "InvalidSource")

\* resume_took_card that returns the cost of an assassination whose block
\* was proved
resume_took_card_refunding(t, current_player, source) ==
    CASE source.type = "Tax" ->
           Ok([t EXCEPT !.player_coins =
                            Put(@, source.player, At(@, source.player) + TAX)],
              Turn(get_next_player(current_player, t.player_hands)))
      [] source.type = "BlockAssassination" ->
           Ok([t EXCEPT !.player_coins =
                            Put(@, source.target,
                                At(@, source.target) + ASSASSINATION_COST)],
              Turn(get_next_player(current_player, t.player_hands)))
      [] source.type \in {"BlockForeignAid", "BlockSteal"} ->
           Ok(t, Turn(get_next_player(current_player, t.player_hands)))
      [] source.type = "Exchange" -> start_exchange(t, source.player)
      [] source.type = "Assassination" ->
           Ok(t, Assassination(source.player, source.target, FALSE))
      [] source.type = "Steal" ->
           Ok(t, Steal(source.player, source.target, FALSE))
      [] OTHER -> Err(t, "InvalidSource")

resume_took_card(t, current_player, source) ==
    CASE source.type = "Tax" ->
           Ok([t EXCEPT !.player_coins =
                            Put(@, source.player, At(@, source.player) + TAX)],
              Turn(get_next_player(current_player, t.player_hands)))
      [] source.type \in {"BlockForeignAid", "BlockAssassination", "BlockSteal"} ->
           Ok(t, Turn(get_next_player(current_player, t.player_hands)))
      [] source.type = "Exchange" -> start_exchange(t, source.player)
      [] source.type = "Assassination" ->
           Ok(t, Assassination(source.player, source.target, FALSE))
      [] source.type = "Steal" ->
           Ok(t, Steal(source.player, source.target, FALSE))
      [] OTHER -> Err(t, "InvalidSource")

\* resume_target_revealed_card with no arm for a BlockSteal source: the
\* revealed card is already lost when the call fails
resume_target_revealed_card_no_block_steal(t, current_player, source) ==
    CASE source.type = "BlockForeignAid" -> Ok(t, ForeignAid(source.target))
      [] source.type = "BlockAssassination" ->
           Ok(t, Assassination(source.target, source.player, FALSE))
      [] source.type \in {"Tax", "Exchange", "Assassination", "Steal"} ->
           Ok(t, Turn(get_next_player(current_player, t.player_hands)))
      [] OTHER -> Err(t, "InvalidSource")

\* resume_target_revealed_card that resumes a blocked action with the blocker
\* as its actor
resume_target_revealed_card_swapped(t, current_player, source) ==
    CASE source.type = "BlockForeignAid" -> Ok(t, ForeignAid(source.player))
      [] source.type = "BlockAssassination" ->
           Ok(t, Assassination(source.player, source.target, FALSE))
      [] source.type = "BlockSteal" ->
           Ok(t, Steal(source.player, source.target, FALSE))
      [] source.type \in {"Tax", "Exchange", "Assassination", "Steal"} ->
           Ok(t, Turn(get_next_player(current_player, t.player_hands)))
      [] OTHER -> Err(t, "InvalidSource")

resume_target_revealed_card(t, current_player, source) ==
    CASE source.type = "BlockForeignAid" -> Ok(t, ForeignAid(source.target))
      [] source.type = "BlockAssassination" ->
           Ok(t, Assassination(source.target, source.player, FALSE))
      [] source.type = "BlockSteal" ->
           Ok(t, Steal(source.target, source.player, FALSE))
      [] source.type \in {"Tax", "Exchange", "Assassination", "Steal"} ->
           Ok(t, Turn(get_next_player(current_player, t.player_hands)))
      [] OTHER -> Err(t, "InvalidSource")

on_challenge(s, current_player, source, state, action, shuffled) ==
    LET r == play_challenge_action(s, state, action, shuffled)
    IN IF r.err # "Ok" THEN r
       ELSE CASE r.value.type = "TookCard" ->
                   resume_took_card(r.s, current_player, source)
              [] r.value.type = "TargetRevealedCard" ->
                   resume_target_revealed_card(r.s, current_player, source)
              [] OTHER -> Ok(r.s, Challenge(current_player, source, r.value))

(***************************************************************************)
(* play_action (fsm.rs:212-265).  The result's s holds the fields as the    *)
(* call leaves them; state_type is assigned only on Ok (fsm.rs:262-263).    *)
(***************************************************************************)
dispatch(s, action, shuffled) ==
    LET st == s.state_type
    IN CASE st.type = "Turn" -> on_turn(s, st.player, action)
         [] st.type = "ForeignAid" -> on_foreign_aid(s, st.player, action)
         [] st.type = "Tax" -> on_tax(s, st.player, action)
         [] st.type = "Exchange" -> on_exchange(s, st.player, action)
         [] st.type = "Assassination" ->
              on_assassination(s, st.player, st.target, st.can_challenge, action)
         [] st.type = "Steal" ->
              on_steal(s, st.player, st.target, st.can_challenge, action)
         [] st.type = "Challenge" ->
              on_challenge(s, st.current_player, st.source, st.state, action, shuffled)
         [] st.type = "BlockForeignAid" ->
              on_block_foreign_aid(s, st.player, st.target, action)
         [] st.type = "NeedCards" -> on_need_cards(s, st.player, st.count, action)
         [] st.type = "TookCards" -> on_took_cards(s, st.player, st.count, action)
         [] st.type = "DroppedCard" -> on_dropped_cards(s, st.player, st.left, action)
         [] st.type = "BlockAssassination" ->
              on_block_assassination(s, st.player, st.target, action)
         [] st.type = "BlockSteal" ->
              on_block_steal(s, st.player, st.target, st.card, action)
         [] st.type = "LostInfluence" ->
              on_lost_influence(s, st.player, st.current_player, action)

\* play_action without the check of the hand of the acting player
play_action_of_inactive(action, s, shuffled) ==
    LET r == dispatch(s, action, shuffled)
    IN IF r.err = "Ok"
       THEN Ok([r.s EXCEPT !.state_type = r.value], r.value)
       ELSE r

play_action(action, s, shuffled) ==
    IF At(s.player_hands, action.player) = 0 THEN Err(s, "InactivePlayer")
    ELSE LET r == dispatch(s, action, shuffled)
         IN IF r.err = "Ok"
            THEN Ok([r.s EXCEPT !.state_type = r.value], r.value)
            ELSE r

(***************************************************************************)
(* The game: the seven fields of State (fsm.rs:202-210), the settings the   *)
(* game was made with, the players who submit actions, the turn counter of  *)
(* the game that wraps the FSM (interactive.rs:362-371), and what the       *)
(* callers observe of the calls: the error of the last call ("None" when it *)
(* was accepted), who put each card into revealed_cards, and the player of  *)
(* the last Turn state.  The last three are the Game of game.rs             *)
(* (game.rs:210-218), the number of calls of Game::play that were accepted, *)
(* and the value of its step counter at the start.  tracker is the          *)
(* CardsTracker of bots.rs (bots.rs:650-656) of one player of a tracked     *)
(* game, and panicked is whether one of its updates ended in a panic.       *)
(***************************************************************************)
VARIABLES state_type, player_coins, player_hands, player_cards_counter,
          player_cards, deck, revealed_cards,
          settings, acting, turn, last_error, revealed_by, turn_player,
          game, accepted, first_step, tracker, panicked, session, stats

vars == <<state_type, player_coins, player_hands, player_cards_counter,
          player_cards, deck, revealed_cards,
          settings, acting, turn, last_error, revealed_by, turn_player,
          game, accepted, first_step, tracker, panicked, session, stats>>

\* no interactive session is running
NoSession == [running |-> FALSE]

\* no statistics are being collected
NoStats == [running |-> FALSE]

State ==
    [state_type |-> state_type, player_coins |-> player_coins,
     player_hands |-> player_hands, player_cards_counter |-> player_cards_counter,
     player_cards |-> player_cards, deck |-> deck, revealed_cards |-> revealed_cards]

Players == 0..(Len(player_hands) - 1)

\* the CardsTracker while no game is tracked
NoTracker == [player |-> 0, cards_per_type |-> 0, game_states |-> <<>>, last_action |-> <<>>]

\* the Game while the FSM is played
NoGame ==
    [step |-> 0, turn |-> 0, round |-> 0, players |-> <<>>, deck |-> <<>>,
     player |-> 0, blockers |-> <<>>]

(***************************************************************************)
(* make_deck (game.rs:266-274) and the deal of Game::new (game.rs:277-302): *)
(* the shuffled deck is dealt from its end, one card to each player in      *)
(* turn, CARDS_PER_PLAYER times.                                            *)
(***************************************************************************)
make_deck(cards_per_type) ==
    [i \in 1..(cards_per_type * Len(ALL_CARDS)) |->
        ALL_CARDS[((i - 1) \div cards_per_type) + 1]]

dealt_cards(shuffled, players_number, player) ==
    [k \in 1..CARDS_PER_PLAYER |->
        shuffled[Len(shuffled) - ((k - 1) * players_number + player)]]

dealt_deck(shuffled, players_number) ==
    SubSeq(shuffled, 1, Len(shuffled) - CARDS_PER_PLAYER * players_number)

\* The games played: the settings, the shuffle the cards were dealt from, the
\* coins at the start of a turn of player 0 with every card still in the hand
\* it was dealt to, and the players who submit actions (the others leave
\* every challenge and block to them).  Coins other than INITIAL_COINS are
\* those of a later round: until then player 0 took Income, ForeignAid or Tax
\* and every other turn was a ForeignAid that was blocked and not challenged,
\* which moves no coin and no card.
\*   TwoPlayers, first deal:  hands [Ambassador, Duke], [Captain, Contessa];
\*                            deck [Assassin]
\*   TwoPlayers, second deal: hands [Assassin, Captain], [Contessa, Duke];
\*                            deck [Ambassador]
\*   TwoPlayersTwoCards:      hands [Ambassador, Captain], [Ambassador, Contessa];
\*                            a deck of six cards
\*   TwoPlayersTwoCards, second deal:
\*                            hands [Ambassador, Ambassador], [Contessa, Duke];
\*                            a deck of six cards
\*   FivePlayers:             hands [Assassin, Ambassador], [Captain, Contessa],
\*                            [Ambassador, Duke], [Captain, Duke],
\*                            [Assassin, Contessa]; every card is dealt and the
\*                            deck is empty
TwoPlayers == [players_number |-> 2, cards_per_type |-> 1]

TwoPlayersTwoCards == [players_number |-> 2, cards_per_type |-> 2]

FivePlayers == [players_number |-> 5, cards_per_type |-> 2]

InitialGames ==
    {[settings |-> TwoPlayers,
      shuffled |-> <<"Assassin", "Contessa", "Duke", "Captain", "Ambassador">>,
      coins |-> <<INITIAL_COINS, INITIAL_COINS>>,
      acting |-> {0, 1}]}
    \cup
    {[settings |-> TwoPlayers,
      shuffled |-> <<"Ambassador", "Duke", "Captain", "Contessa", "Assassin">>,
      coins |-> <<c, INITIAL_COINS>>,
      acting |-> {0, 1}] : c \in {3, 7, 9, 10, 12}}
    \cup
    {[settings |-> TwoPlayersTwoCards,
      shuffled |-> <<"Duke", "Assassin", "Contessa", "Duke", "Captain", "Assassin",
                     "Contessa", "Captain", "Ambassador", "Ambassador">>,
      coins |-> <<INITIAL_COINS, INITIAL_COINS>>,
      acting |-> {0, 1}]}
    \cup
    {[settings |-> TwoPlayersTwoCards,
      shuffled |-> <<"Duke", "Assassin", "Contessa", "Captain", "Captain", "Assassin",
                     "Duke", "Ambassador", "Contessa", "Ambassador">>,
      coins |-> <<INITIAL_COINS, INITIAL_COINS>>,
      acting |-> {0, 1}]}
    \cup
    {[settings |-> FivePlayers,
      shuffled |-> <<"Contessa", "Duke", "Duke", "Contessa", "Ambassador",
                     "Assassin", "Captain", "Ambassador", "Captain", "Assassin">>,
      coins |-> <<3, 1, INITIAL_COINS, INITIAL_COINS, INITIAL_COINS>>,
      acting |-> {0, 1, 2}]}

Init ==
    \E dealt \in InitialGames :
      LET sett == dealt.settings
          shuffled == dealt.shuffled
      IN
        /\ settings = sett
        /\ player_coins = dealt.coins
        /\ state_type = Turn(0)
        /\ player_hands = [i \in 1..sett.players_number |-> CARDS_PER_PLAYER]
        /\ player_cards_counter = [i \in 1..sett.players_number |-> CARDS_PER_PLAYER]
        /\ player_cards = [i \in 1..sett.players_number |->
                              dealt_cards(shuffled, sett.players_number, i - 1)]
        /\ deck = dealt_deck(shuffled, sett.players_number)
        /\ revealed_cards = <<>>
        /\ acting = dealt.acting
        /\ turn = 0
        /\ last_error = "None"
        /\ revealed_by = <<>>
        /\ turn_player = 0
        /\ game = NoGame
        /\ accepted = 0
        /\ first_step = 0
        /\ tracker = NoTracker
        /\ panicked = FALSE
        /\ session = NoSession
        /\ stats = NoStats

(***************************************************************************)
(* One call of play_action.  ShuffleDeck draws the new order of the deck    *)
(* from the rng; no other action uses it.  GameState::advance counts the    *)
(* turns.  A rejected call that left every field as it was is a stuttering  *)
(* step.                                                                    *)
(***************************************************************************)
Call(action, shuffled) ==
    /\ turn < MaxTurn
    /\ \E r \in {play_action(action, State, shuffled)} :
       /\ ~(r.err # "Ok" /\ r.s = State)
       /\ state_type' = r.s.state_type
       /\ player_coins' = r.s.player_coins
       /\ player_hands' = r.s.player_hands
       /\ player_cards_counter' = r.s.player_cards_counter
       /\ player_cards' = r.s.player_cards
       /\ deck' = r.s.deck
       /\ revealed_cards' = r.s.revealed_cards
       /\ turn' = IF r.err = "Ok" /\ r.value.type = "Turn" THEN turn + 1 ELSE turn
       /\ last_error' = IF r.err = "Ok" THEN "None" ELSE r.err
       /\ revealed_by' = IF Len(r.s.revealed_cards) > Len(revealed_cards)
                         THEN Append(revealed_by, action.player)
                         ELSE revealed_by
       /\ turn_player' = IF r.err = "Ok" /\ r.value.type = "Turn"
                         THEN r.value.player
                         ELSE turn_player
       /\ UNCHANGED <<settings, acting, game, accepted, first_step, tracker, panicked,
                   session, stats>>

\* an Action value (fsm.rs:46-50)
Act(player, action_type) == [player |-> player, action_type |-> action_type]

Income ==
    \E player \in acting :
        Call(Act(player, [kind |-> "Income"]), deck)

ForeignAidAction ==
    \E player \in acting :
        Call(Act(player, [kind |-> "ForeignAid"]), deck)

TaxAction ==
    \E player \in acting :
        Call(Act(player, [kind |-> "Tax"]), deck)

ExchangeAction ==
    \E player \in acting :
        Call(Act(player, [kind |-> "Exchange"]), deck)

BlockForeignAidAction ==
    \E player \in acting :
        Call(Act(player, [kind |-> "BlockForeignAid"]), deck)

BlockAssassinationAction ==
    \E player \in acting :
        Call(Act(player, [kind |-> "BlockAssassination"]), deck)

PassChallenge ==
    \E player \in acting :
        Call(Act(player, [kind |-> "PassChallenge"]), deck)

PassBlock ==
    \E player \in acting :
        Call(Act(player, [kind |-> "PassBlock"]), deck)

ChallengeAction ==
    \E player \in acting :
        Call(Act(player, [kind |-> "Challenge"]), deck)

TakeCard ==
    \E player \in acting :
        Call(Act(player, [kind |-> "TakeCard"]), deck)

Coup ==
    \E player \in acting, target \in Players :
        Call(Act(player, [kind |-> "Coup", target |-> target]), deck)

Assassinate ==
    \E player \in acting, target \in Players :
        Call(Act(player, [kind |-> "Assassinate", target |-> target]), deck)

StealAction ==
    \E player \in acting, target \in Players :
        Call(Act(player, [kind |-> "Steal", target |-> target]), deck)

BlockStealAction ==
    \E player \in acting, card \in Card :
        Call(Act(player, [kind |-> "BlockSteal", card |-> card]), deck)

ShowCard ==
    \E player \in acting, card \in Card :
        Call(Act(player, [kind |-> "ShowCard", card |-> card]), deck)

RevealCard ==
    \E player \in acting, card \in Card :
        Call(Act(player, [kind |-> "RevealCard", card |-> card]), deck)

DropCard ==
    \E player \in acting, card \in Card :
        Call(Act(player, [kind |-> "DropCard", card |-> card]), deck)

ShuffleDeck ==
    \E player \in acting, shuffled \in Shuffles(deck) :
        Call(Act(player, [kind |-> "ShuffleDeck"]), shuffled)

Next ==
    \/ Income
    \/ ForeignAidAction
    \/ Coup
    \/ TaxAction
    \/ Assassinate
    \/ ExchangeAction
    \/ StealAction
    \/ BlockForeignAidAction
    \/ BlockAssassinationAction
    \/ BlockStealAction
    \/ PassChallenge
    \/ PassBlock
    \/ ChallengeAction
    \/ ShowCard
    \/ RevealCard
    \/ TakeCard
    \/ ShuffleDeck
    \/ DropCard

Spec == Init /\ [][Next]_vars

(***************************************************************************)
(* What the properties below speak of: every call a caller can make in the  *)
(* current state, and its outcome.                                          *)
(***************************************************************************)
Actions == Action(Len(player_hands))

\* the orders a shuffle can leave the deck in
Orders == Shuffles(deck) \cup {deck}

\* the results play_action can give for the action in the current state
Outcomes(action) ==
    IF action.action_type.kind = "ShuffleDeck"
    THEN {play_action(action, State, shuffled) : shuffled \in Orders}
    ELSE {play_action(action, State, deck)}

Active(p) == At(player_hands, p) > 0

Hand(p) == At(player_cards, p)

RECURSIVE Sum(_)
Sum(numbers) == IF numbers = <<>> THEN 0 ELSE Head(numbers) + Sum(Tail(numbers))

\* the first player after p in circular seat order that has a card left
FirstActiveAfter(p, hands) ==
    LET n == Len(hands)
        k == CHOOSE k \in 1..n :
                 /\ At(hands, (p + k) % n) > 0
                 /\ \A j \in 1..(k - 1) : At(hands, (p + j) % n) = 0
    IN (p + k) % n

\* the challenged player is between ShowCard and TakeCard
InProof ==
    /\ state_type.type = "Challenge"
    /\ state_type.state.type \in {"ShownCard", "InitiatorRevealedCard", "DeckShuffled"}

(***************************************************************************)
(* C1: failure atomicity.  In every reachable state and for every action,   *)
(* when play_action returns an error, state_type, the coins, hand sizes,    *)
(* card counters and cards of every player, the deck and the revealed-card  *)
(* log are what they were before the call.                                  *)
(***************************************************************************)
C1_FailureAtomicity ==
    \A action \in Actions :
        \A r \in Outcomes(action) : r.err \in Error => r.s = State

\* a challenge in which a card was already revealed, where a reveal of a card
\* that is not held is rejected
C1_Witness ==
    /\ state_type.type = "Challenge"
    /\ Len(revealed_cards) > 0
    /\ \E action \in Actions :
          /\ action.action_type.kind = "RevealCard"
          /\ \E r \in Outcomes(action) : r.err = "InvalidCard"

(***************************************************************************)
(* C2: an eliminated player never acts again.  In every state every action  *)
(* of a player whose hand size is 0 is rejected with InactivePlayer, and a  *)
(* hand size of 0 never becomes positive.                                   *)
(***************************************************************************)
C2_InactiveRejected ==
    \A action \in Actions :
        ~Active(action.player) =>
            \A r \in Outcomes(action) : r.err = "InactivePlayer" /\ r.s = State

C2_StaysEliminated ==
    \A p \in Players : At(player_hands, p) = 0 => At(player_hands', p) = 0

C2_EliminatedNeverActs == []C2_InactiveRejected /\ [][C2_StaysEliminated]_vars

\* a player is eliminated while a block of another player is challenged
C2_Witness ==
    /\ state_type.type = "Challenge"
    /\ \E p \in Players : ~Active(p)

(***************************************************************************)
(* C3: total card conservation.  As stated: after every successful action   *)
(* whose resulting state type is not NeedCards or TookCards, the hand sizes *)
(* of all players plus the number of revealed cards plus the deck size is   *)
(* cards_per_type * 5.  As the program has it: that holds except between    *)
(* the ShowCard and the TakeCard of a challenge, where the shown card lies  *)
(* on the deck and still counts in the hand size of the challenged player,  *)
(* so the sum is one more.                                                  *)
(***************************************************************************)
TotalCards == Len(make_deck(settings.cards_per_type))

CardsCounted == Sum(player_hands) + Len(revealed_cards) + Len(deck)

AfterSuccess == last_error = "None"

C3_ConservationAsStated ==
    (AfterSuccess /\ state_type.type \notin {"NeedCards", "TookCards"})
        => CardsCounted = TotalCards

C3_Conservation ==
    (AfterSuccess /\ state_type.type \notin {"NeedCards", "TookCards"})
        => CardsCounted = (IF InProof THEN TotalCards + 1 ELSE TotalCards)

\* the challenged player has shown the claimed card
C3_Witness ==
    /\ AfterSuccess
    /\ state_type.type = "Challenge"
    /\ state_type.state.type = "ShownCard"

(***************************************************************************)
(* C4: counter and hand size.  As stated: after every successful action     *)
(* player_cards_counter[p] >= player_hands[p] for every player p.  As the   *)
(* program has it: that holds except for the challenged player between the *)
(* ShowCard and the TakeCard of a challenge, whose counter is one less than *)
(* the hand size.                                                           *)
(***************************************************************************)
C4_CounterAsStated ==
    AfterSuccess =>
        \A p \in Players : At(player_cards_counter, p) >= At(player_hands, p)

C4_Counter ==
    AfterSuccess =>
        \A p \in Players :
            IF InProof /\ p = state_type.state.target
            THEN At(player_cards_counter, p) = At(player_hands, p) - 1
            ELSE At(player_cards_counter, p) >= At(player_hands, p)

\* the challenger has revealed a card and the challenged player holds one
\* card less than its hand size
C4_Witness ==
    /\ AfterSuccess
    /\ state_type.type = "Challenge"
    /\ state_type.state.type = "InitiatorRevealedCard"
    /\ At(player_cards_counter, state_type.state.target)
         < At(player_hands, state_type.state.target)

(***************************************************************************)
(* C5: per-player influence.  In every reachable state, for every player p, *)
(* player_hands[p] plus the number of cards p put into the revealed-card    *)
(* log is CARDS_PER_PLAYER, and the log only grows: what it held stays, in  *)
(* place.                                                                   *)
(***************************************************************************)
RevealedBy(p) == Cardinality({i \in 1..Len(revealed_by) : revealed_by[i] = p})

C5_Influence ==
    /\ Len(revealed_by) = Len(revealed_cards)
    /\ \A p \in Players : At(player_hands, p) + RevealedBy(p) = CARDS_PER_PLAYER

C5_LogGrows ==
    /\ Len(revealed_cards') >= Len(revealed_cards)
    /\ SubSeq(revealed_cards', 1, Len(revealed_cards)) = revealed_cards

C5_PlayerInfluence == []C5_Influence /\ [][C5_LogGrows]_vars

\* two players have each revealed a card
C5_Witness ==
    /\ Len(revealed_cards) = 2
    /\ revealed_by[1] # revealed_by[2]

(***************************************************************************)
(* C6: turn order.  Whenever an accepted action moves the game into         *)
(* Turn{q} during the turn that began as Turn{p}, q is the first player     *)
(* after p in circular seat order whose hand size is greater than 0 at that *)
(* moment.                                                                  *)
(***************************************************************************)
C6_NextTurn ==
    (last_error' = "None" /\ state_type'.type = "Turn")
        => state_type'.player = FirstActiveAfter(turn_player, player_hands')

C6_TurnPlayer == state_type.type = "Turn" => state_type.player = turn_player

C6_TurnOrder == []C6_TurnPlayer /\ [][C6_NextTurn]_vars

\* the turn of player 0 passed to player 2 over the eliminated player 1
C6_Witness ==
    /\ state_type = Turn(2)
    /\ ~Active(1)
    /\ turn = 1

(***************************************************************************)
(* C7: order of the challenge sub-machine.  A Challenge is entered in its   *)
(* Initial sub-state.  There the only accepted actions are the challenged   *)
(* player's RevealCard of a held card, which ends the challenge, and its    *)
(* ShowCard of the claimed card, held; after that the only accepted action  *)
(* is, in turn, the challenger's RevealCard of a held card, the challenged  *)
(* player's ShuffleDeck and the challenged player's TakeCard, which ends    *)
(* the challenge.                                                           *)
(***************************************************************************)
Kind(action) == action.action_type.kind

Holds(action) == has_card(Hand(action.player), action.action_type.card)

\* the accepted action continues the challenge in the sub-state `next`
ContinuesIn(r, next) ==
    r.value = Challenge(state_type.current_player, state_type.source, next)

C7_InChallenge(st, action, r) ==
    CASE st.type = "Initial" ->
           /\ r.err = "Ok" <=>
                 /\ action.player = st.target
                 /\ \/ Kind(action) = "RevealCard" /\ Holds(action)
                    \/ /\ Kind(action) = "ShowCard"
                       /\ action.action_type.card = st.card
                       /\ Holds(action)
           /\ (r.err = "Ok" /\ Kind(action) = "RevealCard")
                 => r.value.type # "Challenge"
           /\ (r.err = "Ok" /\ Kind(action) = "ShowCard")
                 => ContinuesIn(r, ShownCard(st.initiator, st.target))
      [] st.type = "ShownCard" ->
           /\ r.err = "Ok" <=>
                 /\ action.player = st.initiator
                 /\ Kind(action) = "RevealCard"
                 /\ Holds(action)
           /\ r.err = "Ok" => ContinuesIn(r, InitiatorRevealedCard(st.target))
      [] st.type = "InitiatorRevealedCard" ->
           /\ r.err = "Ok" <=>
                 (action.player = st.target /\ Kind(action) = "ShuffleDeck")
           /\ r.err = "Ok" => ContinuesIn(r, DeckShuffled(st.target))
      [] st.type = "DeckShuffled" ->
           /\ r.err = "Ok" <=>
                 (action.player = st.target /\ Kind(action) = "TakeCard")
           /\ r.err = "Ok" => r.value.type # "Challenge"
      [] OTHER -> FALSE

C7_Continuations ==
    state_type.type = "Challenge" =>
        \A action \in Actions :
            \A r \in Outcomes(action) :
                C7_InChallenge(state_type.state, action, r)

C7_Entered ==
    (state_type.type # "Challenge" /\ state_type'.type = "Challenge")
        => /\ state_type'.state.type = "Initial"
           /\ state_type'.state.initiator # state_type'.state.target

C7_ChallengeOrder == []C7_Continuations /\ [][C7_Entered]_vars

\* the proof ran to the shuffle: only the TakeCard of the challenged player
\* is left
C7_Witness ==
    /\ state_type.type = "Challenge"
    /\ state_type.state.type = "DeckShuffled"

(***************************************************************************)
(* C8: a failed proof rolls the claim back.  When the challenged player     *)
(* reveals a card instead of showing the claimed one: a challenged block    *)
(* returns the game to the block window of the blocked action (ForeignAid   *)
(* of the actor, or Steal or Assassination of the actor against the blocker *)
(* with can_challenge = FALSE), where the blocker, while it has a card, can *)
(* block again and the PassBlock of the actor is accepted; a challenged     *)
(* Tax, Exchange, Assassinate or Steal moves the game to the next turn.     *)
(* Either way no coin moves, the deck stays as it was and nobody but the    *)
(* challenged player loses a card.                                          *)
(***************************************************************************)
BlockSources == {"BlockForeignAid", "BlockAssassination", "BlockSteal"}

ActionSources == {"Tax", "Exchange", "Assassination", "Steal"}

\* the block the blocker of the source can repeat
BlockOf(source) ==
    CASE source.type = "BlockForeignAid" -> [kind |-> "BlockForeignAid"]
      [] source.type = "BlockAssassination" -> [kind |-> "BlockAssassination"]
      [] source.type = "BlockSteal" -> [kind |-> "BlockSteal", card |-> source.card]

\* only the challenged player lost a card, and nothing else changed
OnlyLostCard(r, target, card) ==
    /\ r.s.player_coins = player_coins
    /\ r.s.deck = deck
    /\ r.s.player_hands = Put(player_hands, target, At(player_hands, target) - 1)
    /\ r.s.player_cards_counter =
           Put(player_cards_counter, target, At(player_cards_counter, target) - 1)
    /\ r.s.player_cards = Put(player_cards, target, drop_card(Hand(target), card))
    /\ r.s.revealed_cards = Append(revealed_cards, card)

C8_RolledBack(source, r) ==
    LET actor == state_type.current_player
    IN CASE source.type \in BlockSources ->
              /\ source.target = actor
              /\ source.player # actor
              /\ r.value =
                    CASE source.type = "BlockForeignAid" -> ForeignAid(actor)
                      [] source.type = "BlockAssassination" ->
                           Assassination(actor, source.player, FALSE)
                      [] source.type = "BlockSteal" ->
                           Steal(actor, source.player, FALSE)
              /\ play_action(Act(actor, [kind |-> "PassBlock"]), r.s, r.s.deck).err
                    = "Ok"
              /\ At(r.s.player_hands, source.player) > 0
                    => play_action(Act(source.player, BlockOf(source)), r.s,
                                   r.s.deck).err = "Ok"
         [] source.type \in ActionSources ->
              /\ source.player = actor
              /\ r.value = Turn(FirstActiveAfter(actor, r.s.player_hands))
         [] OTHER -> FALSE

C8_FailedProof ==
    (state_type.type = "Challenge" /\ state_type.state.type = "Initial") =>
        LET target == state_type.state.target
        IN \A card \in Card :
              has_card(Hand(target), card) =>
                 LET r == play_action(Act(target, [kind |-> "RevealCard",
                                                   card |-> card]), State, deck)
                 IN /\ r.err = "Ok"
                    /\ OnlyLostCard(r, target, card)
                    /\ C8_RolledBack(state_type.source, r)

\* a block of a steal is challenged and the blocker does not hold the card
\* it claimed
C8_Witness ==
    /\ state_type.type = "Challenge"
    /\ state_type.state.type = "Initial"
    /\ state_type.source.type = "BlockSteal"
    /\ ~has_card(Hand(state_type.state.target), state_type.state.card)

(***************************************************************************)
(* C9: a successful proof resumes the claim.  When the challenged player    *)
(* has shown the claimed card and takes the replacement card: a challenged  *)
(* Tax credits TAX coins to the actor and advances the turn; a challenged   *)
(* Assassinate or Steal continues in its block window, with can_challenge = *)
(* FALSE; a challenged block stands, no coin moves and the turn of the      *)
(* actor advances.  A challenged Exchange, as stated, proceeds to the       *)
(* card-draw phase; as the program has it, it does so when the deck is not  *)
(* empty after the replacement card was taken, and advances the turn when   *)
(* it is empty.                                                             *)
(***************************************************************************)
\* only the challenged player took the top card of the deck
OnlyDrewCard(r, target) ==
    /\ r.s.player_hands = player_hands
    /\ r.s.revealed_cards = revealed_cards
    /\ r.s.deck = pop_rest(deck)
    /\ r.s.player_cards = Put(player_cards, target, add_card(Hand(target), top_card(deck)))
    /\ r.s.player_cards_counter =
           Put(player_cards_counter, target, At(player_cards_counter, target) + 1)

C9_Resumed(source, r, as_stated) ==
    LET actor == state_type.current_player
        next_turn == Turn(FirstActiveAfter(actor, r.s.player_hands))
    IN CASE source.type = "Tax" ->
              /\ source.player = actor
              /\ r.s.player_coins = Put(player_coins, actor, At(player_coins, actor) + TAX)
              /\ r.value = next_turn
         [] source.type = "Exchange" ->
              /\ source.player = actor
              /\ r.s.player_coins = player_coins
              /\ IF as_stated
                 THEN r.value.type = "NeedCards"
                 ELSE IF Len(r.s.deck) = 0
                      THEN r.value = next_turn
                      ELSE r.value = NeedCards(actor, Min(MAX_CARDS_TO_EXCHANGE,
                                                          Len(r.s.deck)))
         [] source.type = "Assassination" ->
              /\ r.s.player_coins = player_coins
              /\ r.value = Assassination(source.player, source.target, FALSE)
         [] source.type = "Steal" ->
              /\ r.s.player_coins = player_coins
              /\ r.value = Steal(source.player, source.target, FALSE)
         [] source.type \in BlockSources ->
              /\ source.target = actor
              /\ r.s.player_coins = player_coins
              /\ r.value = next_turn
         [] OTHER -> FALSE

C9_TakesCard(as_stated) ==
    (state_type.type = "Challenge" /\ state_type.state.type = "DeckShuffled") =>
        LET target == state_type.state.target
            r == play_action(Act(target, [kind |-> "TakeCard"]), State, deck)
        IN /\ r.err = "Ok"
           /\ OnlyDrewCard(r, target)
           /\ C9_Resumed(state_type.source, r, as_stated)

C9_ProvedAsStated == C9_TakesCard(TRUE)

C9_Proved == C9_TakesCard(FALSE)

\* the actor of an Exchange proved its Ambassador and the replacement card is
\* the only card of the deck
C9_Witness ==
    /\ state_type.type = "Challenge"
    /\ state_type.state.type = "DeckShuffled"
    /\ state_type.source.type = "Exchange"
    /\ Len(deck) = 1

(***************************************************************************)
(* C10: block eligibility.  BlockForeignAid is accepted from every active   *)
(* player but the actor of the foreign aid, and only in ForeignAid;         *)
(* BlockAssassination and BlockSteal are accepted only from the target of   *)
(* the pending Assassination or Steal, only when can_challenge = FALSE, and *)
(* BlockSteal only with Ambassador or Captain.  An accepted block leads to  *)
(* the block state with the blocker as its player and the actor as its      *)
(* target, and changes nothing else.                                        *)
(***************************************************************************)
BlockKinds == {"BlockForeignAid", "BlockAssassination", "BlockSteal"}

C10_Eligible(action) ==
    /\ Active(action.player)
    /\ CASE Kind(action) = "BlockForeignAid" ->
              /\ state_type.type = "ForeignAid"
              /\ action.player # state_type.player
         [] Kind(action) = "BlockAssassination" ->
              /\ state_type.type = "Assassination"
              /\ ~state_type.can_challenge
              /\ action.player = state_type.target
         [] Kind(action) = "BlockSteal" ->
              /\ state_type.type = "Steal"
              /\ ~state_type.can_challenge
              /\ action.player = state_type.target
              /\ action.action_type.card \in {"Ambassador", "Captain"}

C10_BlockState(action) ==
    CASE Kind(action) = "BlockForeignAid" ->
           BlockForeignAid(action.player, state_type.player)
      [] Kind(action) = "BlockAssassination" ->
           BlockAssassination(action.player, state_type.player)
      [] Kind(action) = "BlockSteal" ->
           BlockSteal(action.player, state_type.player, action.action_type.card)

C10_BlockEligibility ==
    \A action \in Actions :
        Kind(action) \in BlockKinds =>
            LET r == play_action(action, State, deck)
            IN /\ r.err = "Ok" <=> C10_Eligible(action)
               /\ r.err = "Ok" =>
                     /\ r.value = C10_BlockState(action)
                     /\ r.value.player # r.value.target
                     /\ r.s = [State EXCEPT !.state_type = r.value]

\* the target of an assassination has blocked it
C10_Witness ==
    /\ state_type.type = "BlockAssassination"
    /\ AfterSuccess

(***************************************************************************)
(* C11: the challenge window precedes the block window.  While a pending    *)
(* Assassination or Steal has can_challenge = TRUE, exactly the actor's     *)
(* PassChallenge and another active player's Challenge are accepted; once   *)
(* can_challenge = FALSE, exactly the actor's PassBlock and the target's    *)
(* block are accepted.  A state with can_challenge = TRUE is entered only   *)
(* from Turn, and a challenge of the Assassination or Steal itself only     *)
(* from that state, so the claim is challenged at most once per turn.       *)
(***************************************************************************)
Targeted == {"Assassination", "Steal"}

C11_Accepted(action) ==
    /\ Active(action.player)
    /\ IF state_type.can_challenge
       THEN \/ Kind(action) = "PassChallenge" /\ action.player = state_type.player
            \/ Kind(action) = "Challenge" /\ action.player # state_type.player
       ELSE \/ Kind(action) = "PassBlock" /\ action.player = state_type.player
            \/ /\ action.player = state_type.target
               /\ \/ /\ state_type.type = "Assassination"
                     /\ Kind(action) = "BlockAssassination"
                  \/ /\ state_type.type = "Steal"
                     /\ Kind(action) = "BlockSteal"
                     /\ action.action_type.card \in {"Ambassador", "Captain"}

C11_Windows ==
    state_type.type \in Targeted =>
        \A action \in Actions :
            play_action(action, State, deck).err = "Ok" <=> C11_Accepted(action)

C11_Once ==
    /\ (state_type'.type \in Targeted /\ state_type'.can_challenge)
          => state_type.type = "Turn" \/ state_type' = state_type
    /\ (state_type.type \in Targeted /\ ~state_type.can_challenge)
          => state_type'.type \in {"Turn", "LostInfluence", "BlockAssassination",
                                   "BlockSteal"} \/ state_type' = state_type
    /\ (state_type'.type = "Challenge" /\ state_type.type # "Challenge"
           /\ state_type'.source.type \in Targeted)
          => state_type = state_type'.source /\ state_type.can_challenge

C11_ChallengeBeforeBlock == []C11_Windows /\ [][C11_Once]_vars

\* a Steal whose challenge was lost by the challenger is in its block window
C11_Witness ==
    /\ state_type.type = "Steal"
    /\ ~state_type.can_challenge
    /\ Len(revealed_cards) > 0
    /\ AfterSuccess

(***************************************************************************)
(* C12: mandatory coup.  In Turn{p} with player_coins[p] >= MAX_COINS every *)
(* action of p other than Coup is rejected with TooManyCoins, and Coup(t)   *)
(* on every other active player t is accepted.                              *)
(***************************************************************************)
C12_MandatoryCoup ==
    (state_type.type = "Turn" /\ At(player_coins, state_type.player) >= MAX_COINS) =>
        \A action \in Actions :
            action.player = state_type.player =>
                LET r == play_action(action, State, deck)
                    p == state_type.player
                IN IF Kind(action) # "Coup"
                   THEN r.err = "TooManyCoins"
                   ELSE LET t == action.action_type.target
                        IN (t # p /\ Active(t)) =>
                              /\ r.err = "Ok"
                              /\ r.value = LostInfluence(t, p)

\* a Coup was accepted from a player who had at least MAX_COINS coins
C12_Witness ==
    /\ state_type.type = "LostInfluence"
    /\ At(player_coins, state_type.current_player) >= MAX_COINS - COUP_COST
    /\ AfterSuccess

(***************************************************************************)
(* C13: target and cost validation in Turn{p}.  Coup(t), Assassinate(t) and *)
(* Steal(t) of p are rejected with InvalidTarget when t = p or              *)
(* player_hands[t] = 0 (for Assassinate and Steal: unless p holds MAX_COINS *)
(* or more, which is rejected with TooManyCoins first); on a valid target,  *)
(* Coup with fewer than COUP_COST coins and Assassinate with fewer than     *)
(* ASSASSINATION_COST coins are rejected with NotEnoughCoins; an accepted   *)
(* Coup deducts exactly COUP_COST and an accepted Assassinate exactly       *)
(* ASSASSINATION_COST from p in the accepting step, an accepted Steal       *)
(* deducts nothing, and no other player's coins change.                     *)
(* C13_AsStated is the statement without the exception for MAX_COINS.       *)
(***************************************************************************)
C13_Cost(kind) ==
    CASE kind = "Coup" -> COUP_COST
      [] kind = "Assassinate" -> ASSASSINATION_COST
      [] kind = "Steal" -> 0

C13_Pending(kind, p, t) ==
    CASE kind = "Coup" -> LostInfluence(t, p)
      [] kind = "Assassinate" -> Assassination(p, t, TRUE)
      [] kind = "Steal" -> Steal(p, t, TRUE)

C13_Validation(as_stated) ==
    state_type.type = "Turn" =>
        \A action \in Actions :
            (action.player = state_type.player /\ Kind(action) \in TargetKinds) =>
                LET r == play_action(action, State, deck)
                    p == state_type.player
                    t == action.action_type.target
                    coins == At(player_coins, p)
                    forced == coins >= MAX_COINS /\ Kind(action) # "Coup"
                IN /\ (t = p \/ At(player_hands, t) = 0) =>
                         \/ r.err = "InvalidTarget"
                         \/ ~as_stated /\ forced /\ r.err = "TooManyCoins"
                   /\ (t # p /\ At(player_hands, t) > 0 /\ ~forced) =>
                         IF coins < C13_Cost(Kind(action))
                         THEN r.err = "NotEnoughCoins"
                         ELSE /\ r.err = "Ok"
                              /\ r.value = C13_Pending(Kind(action), p, t)
                              /\ r.s.player_coins =
                                    Put(player_coins, p, coins - C13_Cost(Kind(action)))
                   /\ r.err = "Ok" =>
                         \A q \in Players :
                             q # p => At(r.s.player_coins, q) = At(player_coins, q)

C13_AsStated == C13_Validation(TRUE)

C13_TargetAndCost == C13_Validation(FALSE)

\* an Assassinate was accepted and paid for
C13_Witness ==
    /\ state_type.type = "Assassination"
    /\ state_type.can_challenge
    /\ At(player_coins, state_type.player) = 0
    /\ AfterSuccess

(***************************************************************************)
(* C14: steal effect.  When the actor passes the block window of a Steal,   *)
(* exactly min(player_coins[target], MAX_STEAL) coins move from the target  *)
(* to the actor, the sum of all coins is unchanged, no third player's coins *)
(* change, nothing but the coins changes, and the next turn begins.         *)
(***************************************************************************)
C14_StealEffect ==
    (state_type.type = "Steal" /\ ~state_type.can_challenge) =>
        LET p == state_type.player
            t == state_type.target
            r == play_action(Act(p, [kind |-> "PassBlock"]), State, deck)
            coins == IF At(player_coins, t) < MAX_STEAL THEN At(player_coins, t)
                     ELSE MAX_STEAL
        IN /\ r.err = "Ok"
           /\ r.value = Turn(FirstActiveAfter(p, player_hands))
           /\ At(r.s.player_coins, t) = At(player_coins, t) - coins
           /\ At(r.s.player_coins, p) = At(player_coins, p) + coins
           /\ \A q \in Players \ {p, t} :
                  At(r.s.player_coins, q) = At(player_coins, q)
           /\ Sum(r.s.player_coins) = Sum(player_coins)
           /\ r.s = [State EXCEPT !.state_type = r.value,
                                  !.player_coins = r.s.player_coins]

\* player 0 stole the only coin of player 1
C14_Witness ==
    /\ state_type.type = "Turn"
    /\ turn = 1
    /\ player_coins = <<4, 0, INITIAL_COINS, INITIAL_COINS, INITIAL_COINS>>
    /\ AfterSuccess

(***************************************************************************)
(* C15: the cost of an assassination is never refunded.  The step that      *)
(* accepts Assassinate from a player with c coins leaves that player c -    *)
(* ASSASSINATION_COST coins; from then on every state before the next Turn  *)
(* is an Assassination, a BlockAssassination, a Challenge of either or a    *)
(* LostInfluence of that player's turn, and no step from such a state, the  *)
(* step into the next Turn included, changes that player's coins.           *)
(***************************************************************************)
C15_Pending(st) ==
    \/ st.type \in {"Assassination", "BlockAssassination", "LostInfluence"}
    \/ /\ st.type = "Challenge"
       /\ st.source.type \in {"Assassination", "BlockAssassination"}

C15_Assassin(st) ==
    CASE st.type = "Assassination" -> st.player
      [] st.type = "BlockAssassination" -> st.target
      [] st.type = "LostInfluence" -> st.current_player
      [] st.type = "Challenge" ->
           IF st.source.type = "Assassination" THEN st.source.player
           ELSE st.source.target

C15_Step ==
    /\ (state_type.type = "Turn" /\ state_type'.type = "Assassination") =>
          /\ state_type'.player = state_type.player
          /\ At(player_coins', state_type.player)
                = At(player_coins, state_type.player) - ASSASSINATION_COST
    /\ C15_Pending(state_type) =>
          /\ C15_Pending(state_type') \/ state_type'.type = "Turn"
          /\ C15_Pending(state_type') =>
                C15_Assassin(state_type') = C15_Assassin(state_type)
          /\ At(player_coins', C15_Assassin(state_type))
                = At(player_coins, C15_Assassin(state_type))
    /\ (state_type'.type \in {"Assassination", "BlockAssassination"}
           /\ state_type.type # "Turn") => C15_Pending(state_type)

C15_NeverRefunded == [][C15_Step]_vars

\* the turn of an assassination that was blocked without a challenge has
\* ended and the three coins of player 0 are gone
C15_Witness ==
    /\ state_type.type = "Turn"
    /\ turn = 1
    /\ At(player_coins, 0) = 0
    /\ revealed_cards = <<>>
    /\ AfterSuccess

(***************************************************************************)
(* C16: an unchallenged Exchange enters the draw phase.  PassChallenge by   *)
(* the acting player in Exchange{player} is accepted and leads to           *)
(* NeedCards{player, min(MAX_CARDS_TO_EXCHANGE, deck size)} when the deck   *)
(* is not empty, and to the next Turn when the deck is empty; nothing else  *)
(* changes.  C16_AsStated is the statement with NeedCards in every case.    *)
(***************************************************************************)
C16_Pass(as_stated) ==
    state_type.type = "Exchange" =>
        LET player == state_type.player
            r == play_action(Act(player, [kind |-> "PassChallenge"]), State, deck)
        IN /\ r.err = "Ok"
           /\ r.s = [State EXCEPT !.state_type = r.value]
           /\ IF count(deck) > 0
              THEN /\ r.value.type = "NeedCards"
                   /\ r.value.player = player
                   /\ r.value.count = Min(MAX_CARDS_TO_EXCHANGE, count(deck))
              ELSE /\ ~as_stated
                   /\ r.value = Turn(FirstActiveAfter(player, player_hands))

C16_AsStated == C16_Pass(TRUE)

C16_DrawPhase == C16_Pass(FALSE)

\* the draw phase of an Exchange that nobody challenged
C16_Witness ==
    /\ state_type.type = "NeedCards"
    /\ revealed_cards = <<>>
    /\ At(player_cards_counter, state_type.player) = At(player_hands, state_type.player)
    /\ AfterSuccess

(***************************************************************************)
(* C17: an Exchange returns exactly what it drew.  NeedCards accepts        *)
(* exactly TakeCard from the exchanging player, and the last draw leads to  *)
(* TookCards; in every TookCards state count = player_cards_counter -       *)
(* player_hands of the exchanging player and is positive; the draw phase is *)
(* entered with counter = hand size, every step of the exchange keeps deck  *)
(* size + counter - hand size of that player, and in the Turn that follows  *)
(* the counter equals the hand size again, so the deck has the size it had  *)
(* before the first draw.                                                   *)
(***************************************************************************)
InExchange(st) == st.type \in {"NeedCards", "TookCards"}

Held(counter, hands, p) == At(counter, p) - At(hands, p)

C17_Counts ==
    /\ state_type.type = "NeedCards" =>
          /\ state_type.count \in 1..count(deck)
          /\ \A action \in Actions :
                LET r == play_action(action, State, deck)
                IN /\ r.err = "Ok" <=> /\ action.player = state_type.player
                                       /\ Kind(action) = "TakeCard"
                   /\ r.err = "Ok" =>
                         r.value = IF state_type.count = 1
                                   THEN TookCards(state_type.player,
                                            Held(r.s.player_cards_counter,
                                                 r.s.player_hands, state_type.player))
                                   ELSE NeedCards(state_type.player, state_type.count - 1)
    /\ state_type.type = "TookCards" =>
          /\ state_type.count
                = Held(player_cards_counter, player_hands, state_type.player)
          /\ state_type.count > 0
    /\ state_type.type = "Turn" =>
          \A p \in Players : Held(player_cards_counter, player_hands, p) = 0

C17_Step ==
    /\ InExchange(state_type) =>
          LET p == state_type.player
          IN /\ count(deck') + Held(player_cards_counter', player_hands', p)
                   = count(deck) + Held(player_cards_counter, player_hands, p)
             /\ InExchange(state_type') \/ state_type'.type = "Turn"
             /\ InExchange(state_type') => state_type'.player = p
    /\ (~InExchange(state_type) /\ InExchange(state_type')) =>
          /\ state_type'.type = "NeedCards"
          /\ Held(player_cards_counter', player_hands', state_type'.player) = 0

C17_ReturnsWhatItDrew == []C17_Counts /\ [][C17_Step]_vars

\* player 0 gave the Duke for the Assassin of the deck, and the turn passed
C17_Witness ==
    /\ state_type.type = "Turn"
    /\ turn = 1
    /\ deck = <<"Duke">>
    /\ revealed_cards = <<>>
    /\ AfterSuccess

(***************************************************************************)
(* C18: an eliminated player is never the target of a Coup, Assassinate or  *)
(* Steal.  No pending Assassination, Steal or LostInfluence names a target  *)
(* whose player_hands is 0, and no accepted action takes coins or influence *)
(* from a player whose player_hands is 0.                                   *)
(***************************************************************************)
C18_Target(st) == IF st.type = "LostInfluence" THEN st.player ELSE st.target

Expected(st) ==
    CASE st.type \in {"Turn", "NeedCards", "TookCards", "DroppedCard", "LostInfluence"} ->
           {st.player}
      [] st.type \in Targeted ->
           IF st.can_challenge THEN Players ELSE {st.player, st.target}
      [] st.type = "Challenge" ->
           IF st.state.type = "ShownCard" THEN {st.state.initiator}
           ELSE {st.state.target}
      [] OTHER -> Players

C19_Error(st, kind) ==
    CASE st.type \in {"Turn", "NeedCards", "Challenge"} -> "InvalidPlayer"
      [] st.type = "Assassination" ->
           IF kind = "PassBlock" THEN "InvalidPlayer"
           ELSE IF kind = "BlockAssassination" THEN "InvalidTarget"
           ELSE "InvalidAction"
      [] st.type = "Steal" ->
           IF kind = "PassBlock" THEN "InvalidPlayer"
           ELSE IF kind = "BlockSteal" THEN "InvalidTarget"
           ELSE "InvalidAction"
      [] st.type \in {"TookCards", "DroppedCard"} ->
           IF kind = "DropCard" THEN "InvalidPlayer" ELSE "InvalidAction"
      [] st.type = "LostInfluence" ->
           IF kind = "RevealCard" THEN "InvalidPlayer" ELSE "InvalidAction"

C19_Rejected(as_stated) ==
    \A action \in Actions :
        (Active(action.player) /\ action.player \notin Expected(state_type)) =>
            \A r \in Outcomes(action) :
                /\ r.s = State
                /\ r.err = IF as_stated THEN "InvalidPlayer"
                           ELSE C19_Error(state_type, Kind(action))

C19_AsStated == C19_Rejected(TRUE)

C19_WrongActor == C19_Rejected(FALSE)

\* a player other than the exchanging one is refused a DropCard in TookCards
C19_Witness ==
    /\ state_type.type = "TookCards"
    /\ \E action \in Actions :
          /\ Active(action.player)
          /\ action.player \notin Expected(state_type)
          /\ play_action(action, State, deck).err = "InvalidPlayer"

(***************************************************************************)
(* Game::is_done and Game::get_winner (game.rs:382-396), over the hand      *)
(* sizes: a player is in the game while one of their cards is unrevealed.   *)
(* get_winner is the set of its Option: empty for None.                     *)
(***************************************************************************)
is_done(hands) == Cardinality({p \in 1..Len(hands) : hands[p] > 0}) <= 1

get_winner(hands) ==
    IF is_done(hands)
    THEN {p \in 0..(Len(hands) - 1) :
             /\ At(hands, p) > 0
             /\ \A q \in 0..(p - 1) : At(hands, q) = 0}
    ELSE {}

(***************************************************************************)
(* C20: a winner always exists.  In every reachable state at least one      *)
(* player has player_hands > 0; when at most one player is active exactly   *)
(* one is, get_winner names that player, no action of any player changes    *)
(* that player's hand, and no Coup, Assassinate or Steal is accepted any    *)
(* more; while two or more are active there is no winner.                   *)
(***************************************************************************)
C20_WinnerExists ==
    /\ \E p \in Players : Active(p)
    /\ ~is_done(player_hands) => get_winner(player_hands) = {}
    /\ is_done(player_hands) =>
          /\ Cardinality({p \in Players : Active(p)}) = 1
          /\ get_winner(player_hands) = {p \in Players : Active(p)}
          /\ \A action \in Actions : \A r \in Outcomes(action) :
                /\ r.s.player_hands = player_hands
                /\ r.err = "Ok" => Kind(action) \notin TargetKinds

\* one player is left with influence
C20_Witness ==
    /\ is_done(player_hands)
    /\ get_winner(player_hands) # {}
    /\ AfterSuccess

(***************************************************************************)
(* C21: losing a challenge costs exactly one influence.  A Challenge is     *)
(* entered in Initial without a change of hands.  From Initial the target   *)
(* either shows the card (no hand changes) or reveals one and the Challenge *)
(* is left; from ShownCard the initiator reveals one; each reveal lowers    *)
(* exactly that player's hand by 1 and appends one card to the revealed     *)
(* log.  After the initiator's reveal no step up to and including the one   *)
(* that leaves the Challenge changes a hand or the log.  So between         *)
(* entering and leaving exactly one hand drops, by exactly 1: the           *)
(* challenged player's if they reveal, otherwise the challenger's.          *)
(***************************************************************************)
C21_Lost(p) ==
    /\ player_hands' = Put(player_hands, p, At(player_hands, p) - 1)
    /\ Len(revealed_cards') = Len(revealed_cards) + 1
    /\ SubSeq(revealed_cards', 1, Len(revealed_cards)) = revealed_cards

C21_Kept ==
    /\ player_hands' = player_hands
    /\ revealed_cards' = revealed_cards

C21_Step ==
    /\ (state_type.type # "Challenge" /\ state_type'.type = "Challenge") =>
          /\ state_type'.state.type = "Initial"
          /\ C21_Kept
    /\ state_type.type = "Challenge" =>
          CASE state_type.state.type = "Initial" ->
                 \/ /\ state_type'.type = "Challenge"
                    /\ state_type'.state.type = "ShownCard"
                    /\ state_type'.state.initiator = state_type.state.initiator
                    /\ C21_Kept
                 \/ /\ state_type'.type # "Challenge"
                    /\ C21_Lost(state_type.state.target)
            [] state_type.state.type = "ShownCard" ->
                 /\ state_type'.type = "Challenge"
                 /\ state_type'.state.type = "InitiatorRevealedCard"
                 /\ C21_Lost(state_type.state.initiator)
            [] state_type.state.type = "InitiatorRevealedCard" ->
                 /\ state_type'.type = "Challenge"
                 /\ state_type'.state.type = "DeckShuffled"
                 /\ C21_Kept
            [] state_type.state.type = "DeckShuffled" ->
                 /\ state_type'.type # "Challenge"
                 /\ C21_Kept

C21_OneInfluence == [][C21_Step]_vars

\* a proved challenge was left: the challenger alone has lost a card
C21_Witness ==
    /\ state_type.type = "Steal"
    /\ ~state_type.can_challenge
    /\ Len(revealed_cards) = 1
    /\ At(player_hands, state_type.player) = CARDS_PER_PLAYER
    /\ Sum(player_hands) = CARDS_PER_PLAYER * Len(player_hands) - 1
    /\ AfterSuccess

(***************************************************************************)
(* C22: coin bounds.  Every player's coins are between 0 and MAX_COINS - 1  *)
(* + TAX in every reachable state: within a turn, before its gain is        *)
(* credited, the turn player holds fewer than MAX_COINS coins, since a      *)
(* player with MAX_COINS or more can only Coup.                             *)
(***************************************************************************)
C22_CoinBounds ==
    /\ \A p \in Players : At(player_coins, p) \in 0..(MAX_COINS - 1 + TAX)
    /\ state_type.type # "Turn" => At(player_coins, turn_player) < MAX_COINS

\* a Tax taken at 9 coins has brought player 0 to 12
C22_Witness ==
    /\ state_type.type = "Turn"
    /\ turn = 1
    /\ At(player_coins, 0) = MAX_COINS - 1 + TAX
    /\ AfterSuccess

(***************************************************************************)
(* play_actions (fsm.rs:1277-1287): the actions are played in order and the *)
(* first error ends the play.  The outcomes are a set, one for each order   *)
(* a ShuffleDeck may leave the deck in.                                     *)
(***************************************************************************)
RECURSIVE play_actions(_, _)
play_actions(results, actions) ==
    IF actions = <<>> THEN results
    ELSE play_actions(
             UNION {IF r.err # "Ok" THEN {r}
                    ELSE {play_action(Head(actions), r.s, shuffled) :
                             shuffled \in IF Kind(Head(actions)) = "ShuffleDeck"
                                          THEN Shuffles(r.s.deck) \cup {r.s.deck}
                                          ELSE {r.s.deck}} : r \in results},
             Tail(actions))

(***************************************************************************)
(* C23: scenario 5.  Two players, P0 holds [Ambassador, Ambassador] in a    *)
(* fresh deal.  P0 Exchange; P1 Challenge; P0 ShowCard(Ambassador); P1      *)
(* RevealCard of a held card; P0 ShuffleDeck; P0 TakeCard (the replacement  *)
(* of the shown card); P0 TakeCard twice more (the two cards of the         *)
(* exchange); P0 DropCard of a held card, twice: every action is accepted,  *)
(* and afterwards P0 has 2 cards, the deck has its original size and the    *)
(* state is Turn{1}.  C23_AsStated is the scenario with two TakeCard in     *)
(* all.                                                                     *)
(***************************************************************************)
Scenario5Start ==
    /\ state_type = Turn(0)
    /\ Len(player_hands) = 2
    /\ Hand(0) = <<"Ambassador", "Ambassador">>
    /\ player_hands = <<CARDS_PER_PLAYER, CARDS_PER_PLAYER>>
    /\ revealed_cards = <<>>

CardsOf(cards) == {cards[i] : i \in 1..Len(cards)}

Scenario5Draws(card, takes) ==
    <<Act(0, [kind |-> "Exchange"]),
      Act(1, [kind |-> "Challenge"]),
      Act(0, [kind |-> "ShowCard", card |-> "Ambassador"]),
      Act(1, [kind |-> "RevealCard", card |-> card]),
      Act(0, [kind |-> "ShuffleDeck"])>>
    \o [i \in 1..takes |-> Act(0, [kind |-> "TakeCard"])]

Scenario5(takes) ==
    Scenario5Start =>
        \A card \in CardsOf(Hand(1)) :
            \A drawn \in play_actions({Ok(State, state_type)}, Scenario5Draws(card, takes)) :
                /\ drawn.err = "Ok"
                /\ \A first \in CardsOf(At(drawn.s.player_cards, 0)) :
                      LET one == play_action(Act(0, [kind |-> "DropCard", card |-> first]),
                                             drawn.s, drawn.s.deck)
                      IN /\ one.err = "Ok"
                         /\ \A second \in CardsOf(At(one.s.player_cards, 0)) :
                               LET two == play_action(
                                              Act(0, [kind |-> "DropCard", card |-> second]),
                                              one.s, one.s.deck)
                               IN /\ two.err = "Ok"
                                  /\ two.s.state_type = Turn(1)
                                  /\ At(two.s.player_hands, 0) = CARDS_PER_PLAYER
                                  /\ At(two.s.player_cards_counter, 0) = CARDS_PER_PLAYER
                                  /\ Len(At(two.s.player_cards, 0)) = CARDS_PER_PLAYER
                                  /\ count(two.s.deck) = count(deck)

C23_AsStated == Scenario5(2)

C23_Scenario5 == Scenario5(3)

\* the scenario was played up to its last TakeCard
C23_Witness ==
    /\ state_type = TookCards(0, 2)
    /\ Len(revealed_cards) = 1
    /\ At(player_hands, 1) = 1
    /\ Len(Hand(0)) = 4
    /\ CardsOf(Hand(1)) \cup CardsOf(revealed_cards) = {"Contessa", "Duke"}
    /\ AfterSuccess


(***************************************************************************)
(* Game (game.rs): the game kept as a stack of blockers.  A Game value is   *)
(* a record of the fields of the struct (game.rs:210-218); a player is      *)
(* [coins, cards], a card of a player [kind, revealed].  An Option is the   *)
(* empty tuple or a tuple of one value.                                     *)
(***************************************************************************)
STEAL_BLOCKERS == <<"Ambassador", "Captain">>

GameCard == {ALL_CARDS[i] : i \in 1..Len(ALL_CARDS)}

None == <<>>

Some(v) == <<v>>

PlayerCard(kind, revealed) == [kind |-> kind, revealed |-> revealed]

Player(coins, cards) == [coins |-> coins, cards |-> cards]

is_active(player) == \E i \in 1..Len(player.cards) : ~player.cards[i].revealed

\* ActionType (game.rs:226-243) and Action (game.rs:220-224)
GamePlainKinds == {"Income", "ForeignAid", "Tax", "Exchange", "BlockForeignAid",
                   "BlockAssassination", "Complete", "Challenge"}

GameCardKinds == {"BlockSteal", "ShowCard", "RevealCard", "DropCard"}

GameActionType(n) ==
    {[kind |-> kind] : kind \in GamePlainKinds}
    \cup {[kind |-> kind, target |-> t] : kind \in TargetKinds, t \in 0..(n - 1)}
    \cup {[kind |-> kind, card |-> c] : kind \in GameCardKinds, c \in GameCard}

GameAction(n) ==
    {[player |-> p, action_type |-> t] : p \in 0..(n - 1), t \in GameActionType(n)}

\* Blocker (game.rs:245-264)
Counteraction(action_type, target, source) ==
    [type |-> "Counteraction", action_type |-> action_type, target |-> target,
     source |-> source]

ChallengeBlocker(target, source, card) ==
    [type |-> "Challenge", target |-> target, source |-> source, card |-> card]

RevealCardBlocker(target) == [type |-> "RevealCard", target |-> target]

DropCardBlocker(target) == [type |-> "DropCard", target |-> target]

last(blockers) == blockers[Len(blockers)]

pop(blockers) == SubSeq(blockers, 1, Len(blockers) - 1)

\* Result<(), String> of a method together with the game it leaves
GameOk(g) == [err |-> "Ok", g |-> g]

GameErr(g) == [err |-> "Err", g |-> g]

\* the position of the first unrevealed card of the kind, 0 when there is none
find_unrevealed(cards, kind) ==
    IF \E i \in 1..Len(cards) : ~cards[i].revealed /\ cards[i].kind = kind
    THEN CHOOSE i \in 1..Len(cards) :
             /\ ~cards[i].revealed /\ cards[i].kind = kind
             /\ \A j \in 1..(i - 1) : cards[j].revealed \/ cards[j].kind # kind
    ELSE 0

(***************************************************************************)
(* advance_player (game.rs:740-745).  The loop does not terminate when no   *)
(* player is active; that case is reported as the number of players.        *)
(***************************************************************************)
RECURSIVE advance_player_loop(_, _, _)
advance_player_loop(player, players, fuel) ==
    IF fuel = 0 THEN Len(players)
    ELSE IF ~is_active(At(players, (player + 1) % Len(players)))
         THEN advance_player_loop(player + 1, players, fuel - 1)
         ELSE (player + 1) % Len(players)

advance_player(g) ==
    [g EXCEPT !.player = advance_player_loop(g.player, g.players, Len(g.players) + 1)]

(***************************************************************************)
(* complete_action (game.rs:713-738).                                       *)
(***************************************************************************)
add_coins(g, player, coins) ==
    [g EXCEPT !.players = Put(@, player,
                              [At(@, player) EXCEPT !.coins = @ + coins])]

RECURSIVE exchange_draw(_, _, _)
exchange_draw(g, player, times) ==
    IF times = 0 THEN g
    ELSE exchange_draw(
             [g EXCEPT !.players = Put(@, player,
                                       [At(@, player) EXCEPT
                                           !.cards = Append(@, PlayerCard(top_card(g.deck), FALSE))]),
                       !.deck = pop_rest(@),
                       !.blockers = Append(@, DropCardBlocker(player))],
             player, times - 1)

complete_action(g, action_type, player) ==
    CASE action_type.kind = "ForeignAid" -> add_coins(g, player, 2)
      [] action_type.kind = "Tax" -> add_coins(g, player, 3)
      [] action_type.kind = "Assassinate" ->
           IF is_active(At(g.players, action_type.target))
           THEN [g EXCEPT !.blockers = Append(@, RevealCardBlocker(action_type.target))]
           ELSE g
      [] action_type.kind = "Exchange" ->
           exchange_draw(g, player, Min(Len(g.deck), MAX_CARDS_TO_EXCHANGE))
      [] action_type.kind = "Steal" ->
           LET coins == Min(At(g.players, action_type.target).coins, 2)
           IN add_coins(add_coins(g, player, coins), action_type.target, 0 - coins)
      [] OTHER -> g

(***************************************************************************)
(* income, action_without_target, coup, assassinate, steal                  *)
(* (game.rs:427-531).                                                       *)
(***************************************************************************)
income(g, player) ==
    IF player # g.player THEN GameErr(g)
    ELSE IF g.blockers # <<>> THEN GameErr(g)
    ELSE IF At(g.players, player).coins >= MAX_COINS THEN GameErr(g)
    ELSE GameOk(advance_player(add_coins(g, player, 1)))

action_without_target(g, action_type, player) ==
    IF player # g.player THEN GameErr(g)
    ELSE IF g.blockers # <<>> THEN GameErr(g)
    ELSE IF At(g.players, player).coins >= MAX_COINS THEN GameErr(g)
    ELSE GameOk([g EXCEPT !.blockers = Append(@, Counteraction(action_type, player, None))])

\* coup that is refused below MAX_COINS coins
coup_full_purse(g, player, target) ==
    IF player # g.player THEN GameErr(g)
    ELSE IF g.blockers # <<>> THEN GameErr(g)
    ELSE IF player = target THEN GameErr(g)
    ELSE IF At(g.players, player).coins < MAX_COINS THEN GameErr(g)
    ELSE IF ~is_active(At(g.players, target)) THEN GameErr(g)
    ELSE GameOk([add_coins(g, player, 0 - COUP_COST) EXCEPT
                    !.blockers = Append(@, RevealCardBlocker(target))])

coup(g, player, target) ==
    IF player # g.player THEN GameErr(g)
    ELSE IF g.blockers # <<>> THEN GameErr(g)
    ELSE IF player = target THEN GameErr(g)
    ELSE IF At(g.players, player).coins < COUP_COST THEN GameErr(g)
    ELSE IF ~is_active(At(g.players, target)) THEN GameErr(g)
    ELSE GameOk([add_coins(g, player, 0 - COUP_COST) EXCEPT
                    !.blockers = Append(@, RevealCardBlocker(target))])

assassinate(g, player, target) ==
    IF player # g.player THEN GameErr(g)
    ELSE IF g.blockers # <<>> THEN GameErr(g)
    ELSE IF player = target THEN GameErr(g)
    ELSE IF ~is_active(At(g.players, target)) THEN GameErr(g)
    ELSE IF At(g.players, player).coins < ASSASSINATION_COST THEN GameErr(g)
    ELSE IF At(g.players, player).coins >= MAX_COINS THEN GameErr(g)
    ELSE GameOk([add_coins(g, player, 0 - ASSASSINATION_COST) EXCEPT
                    !.blockers = Append(@, Counteraction(
                                     [kind |-> "Assassinate", target |-> target],
                                     player, None))])

steal(g, player, target) ==
    IF player # g.player THEN GameErr(g)
    ELSE IF g.blockers # <<>> THEN GameErr(g)
    ELSE IF player = target THEN GameErr(g)
    ELSE IF ~is_active(At(g.players, target)) THEN GameErr(g)
    ELSE IF At(g.players, player).coins >= MAX_COINS THEN GameErr(g)
    ELSE GameOk([g EXCEPT !.blockers = Append(@, Counteraction(
                                           [kind |-> "Steal", target |-> target],
                                           player, None))])

(***************************************************************************)
(* block_foreign_aid, block_steal, block_assassination (game.rs:533-594):   *)
(* the last blocker has to be a Counteraction without a source, whatever    *)
(* its action type; it gets the blocking player as its source and the       *)
(* block is pushed as a Counteraction of its own.                           *)
(***************************************************************************)
with_source(blockers, player) ==
    [blockers EXCEPT ![Len(blockers)].source = Some(player)]

block_foreign_aid(g, player) ==
    IF player = g.player THEN GameErr(g)
    ELSE IF g.blockers # <<>> /\ last(g.blockers).type = "Counteraction"
         THEN IF last(g.blockers).source # None THEN GameErr(g)
              ELSE GameOk([g EXCEPT !.blockers =
                              Append(with_source(@, player),
                                     Counteraction([kind |-> "BlockForeignAid"], player, None))])
         ELSE GameErr(g)

block_steal(g, player, card) ==
    IF player = g.player THEN GameErr(g)
    ELSE IF card \notin {"Ambassador", "Captain"} THEN GameErr(g)
    ELSE IF g.blockers # <<>> /\ last(g.blockers).type = "Counteraction"
         THEN IF last(g.blockers).source # None THEN GameErr(g)
              ELSE GameOk([g EXCEPT !.blockers =
                              Append(with_source(@, player),
                                     Counteraction([kind |-> "BlockSteal", card |-> card],
                                                   player, None))])
         ELSE GameErr(g)

block_assassination(g, player) ==
    IF player = g.player THEN GameErr(g)
    ELSE IF g.blockers # <<>> /\ last(g.blockers).type = "Counteraction"
         THEN IF last(g.blockers).source # None THEN GameErr(g)
              ELSE GameOk([g EXCEPT !.blockers =
                              Append(with_source(@, player),
                                     Counteraction([kind |-> "BlockAssassination"], player, None))])
         ELSE GameErr(g)

(***************************************************************************)
(* complete (game.rs:596-617).                                              *)
(***************************************************************************)
complete(g, player) ==
    IF Len(g.blockers) < 1 THEN GameErr(g)
    ELSE IF last(g.blockers).type = "Counteraction" /\ last(g.blockers).source = None
         THEN IF player # last(g.blockers).target THEN GameErr(g)
              ELSE LET action_type == last(g.blockers).action_type
                       target == last(g.blockers).target
                       completed == complete_action([g EXCEPT !.blockers = <<>>],
                                                    action_type, target)
                   IN GameOk(IF completed.blockers = <<>>
                             THEN advance_player(completed)
                             ELSE completed)
         ELSE GameErr(g)

(***************************************************************************)
(* challenge (game.rs:619-647).  The card of an action type is "" when the  *)
(* match has no arm for it.                                                 *)
(***************************************************************************)
challenged_card(action_type) ==
    CASE action_type.kind \in {"BlockForeignAid", "Tax"} -> "Duke"
      [] action_type.kind = "BlockSteal" -> action_type.card
      [] action_type.kind = "BlockAssassination" -> "Contessa"
      [] action_type.kind = "Steal" -> "Captain"
      [] action_type.kind = "Assassinate" -> "Assassin"
      [] action_type.kind = "Exchange" -> "Ambassador"
      [] OTHER -> ""

challenge(g, player) ==
    IF g.blockers # <<>> /\ last(g.blockers).type = "Counteraction"
    THEN LET top == last(g.blockers)
             card == challenged_card(top.action_type)
         IN IF card = "" THEN GameErr(g)
            ELSE IF top.source = None
                 THEN GameOk([g EXCEPT !.blockers =
                                 Append(with_source(@, player),
                                        ChallengeBlocker(top.target, player, card))])
            ELSE IF top.target # player THEN GameErr(g)
            ELSE GameOk([g EXCEPT !.blockers =
                            Append(@, ChallengeBlocker(top.source[1], player, card))])
    ELSE GameErr(g)

(***************************************************************************)
(* show_card (game.rs:649-675).  shuffled is the deck as deck.shuffle(rng)  *)
(* leaves it after the shown card has been pushed.                          *)
(***************************************************************************)


show_card(g, player, shown_card, shuffled) ==
    IF g.blockers # <<>> /\ last(g.blockers).type = "Challenge"
    THEN LET top == last(g.blockers)
             card_index == find_unrevealed(At(g.players, top.target).cards, top.card)
         IN IF shown_card # top.card THEN GameErr(g)
            ELSE IF top.target # player THEN GameErr(g)
            ELSE IF card_index = 0 THEN GameErr(g)
            ELSE GameOk([g EXCEPT
                     !.players = Put(@, top.target,
                         [At(@, top.target) EXCEPT
                             !.cards = Append(remove(@, card_index),
                                              PlayerCard(top_card(shuffled), FALSE))]),
                     !.deck = pop_rest(shuffled),
                     !.blockers = Append(pop(@), RevealCardBlocker(top.source))])
    ELSE GameErr(g)

(***************************************************************************)
(* reveal_card (game.rs:677-711).  After the card is revealed the           *)
(* counteractions on top of the stack are popped one by one, and each one   *)
(* whose target is not the revealing player is completed.                   *)
(***************************************************************************)
RECURSIVE unwind(_, _)
unwind(g, player) ==
    IF g.blockers = <<>> THEN g
    ELSE IF last(g.blockers).type = "Counteraction"
         THEN LET action_type == last(g.blockers).action_type
                  target == last(g.blockers).target
                  popped == [g EXCEPT !.blockers = pop(@)]
              IN unwind(IF player # target
                        THEN complete_action(popped, action_type, target)
                        ELSE popped,
                        player)
         ELSE g

reveal_card(g, player, card) ==
    IF g.blockers # <<>> /\ last(g.blockers).type \in {"RevealCard", "Challenge"}
    THEN IF last(g.blockers).target # player THEN GameErr(g)
         ELSE LET i == find_unrevealed(At(g.players, player).cards, card)
              IN IF i = 0 THEN GameErr(g)
                 ELSE LET revealed == [g EXCEPT
                              !.players = Put(@, player,
                                  [At(@, player) EXCEPT !.cards[i].revealed = TRUE]),
                              !.blockers = pop(@)]
                          unwound == unwind(revealed, player)
                      IN GameOk(IF unwound.blockers = <<>>
                                THEN advance_player(unwound)
                                ELSE unwound)
    ELSE GameErr(g)

(***************************************************************************)
(* drop_card (game.rs:713-734).                                             *)
(***************************************************************************)
game_drop_card(g, player, card) ==
    IF g.blockers # <<>> /\ last(g.blockers).type = "DropCard"
    THEN IF last(g.blockers).target # player THEN GameErr(g)
         ELSE LET card_index == find_unrevealed(At(g.players, player).cards, card)
              IN IF card_index = 0 THEN GameErr(g)
                 ELSE LET dropped == [g EXCEPT
                              !.blockers = pop(@),
                              !.players = Put(@, player,
                                  [At(@, player) EXCEPT !.cards = remove(@, card_index)]),
                              !.deck = Append(@, card)]
                      IN GameOk(IF dropped.blockers = <<>>
                                THEN advance_player(dropped)
                                ELSE dropped)
    ELSE GameErr(g)

(***************************************************************************)
(* Game::play (game.rs:398-425): the method of the action type, and the     *)
(* counters of an accepted action.                                          *)
(***************************************************************************)
play_method(g, action, shuffled) ==
    LET t == action.action_type
    IN CASE t.kind = "Income" -> income(g, action.player)
         [] t.kind \in {"ForeignAid", "Tax", "Exchange"} ->
              action_without_target(g, t, action.player)
         [] t.kind = "Coup" -> coup(g, action.player, t.target)
         [] t.kind = "Assassinate" -> assassinate(g, action.player, t.target)
         [] t.kind = "Steal" -> steal(g, action.player, t.target)
         [] t.kind = "BlockForeignAid" -> block_foreign_aid(g, action.player)
         [] t.kind = "BlockSteal" -> block_steal(g, action.player, t.card)
         [] t.kind = "BlockAssassination" -> block_assassination(g, action.player)
         [] t.kind = "Complete" -> complete(g, action.player)
         [] t.kind = "Challenge" -> challenge(g, action.player)
         [] t.kind = "ShowCard" -> show_card(g, action.player, t.card, shuffled)
         [] t.kind = "RevealCard" -> reveal_card(g, action.player, t.card)
         [] t.kind = "DropCard" -> game_drop_card(g, action.player, t.card)

\* play that begins a round with every change of the player on turn
play_round_per_turn(g, action, shuffled) ==
    LET player == g.player
        result == play_method(g, action, shuffled)
    IN IF result.err = "Ok"
       THEN GameOk([result.g EXCEPT
                !.step = @ + 1,
                !.turn = IF player # result.g.player THEN @ + 1 ELSE @,
                !.round = IF player # result.g.player THEN @ + 1 ELSE @])
       ELSE result

play(g, action, shuffled) ==
    LET player == g.player
        result == play_method(g, action, shuffled)
    IN IF result.err = "Ok"
       THEN GameOk([result.g EXCEPT
                !.step = @ + 1,
                !.turn = IF player # result.g.player THEN @ + 1 ELSE @,
                !.round = IF player # result.g.player /\ player > result.g.player
                          THEN @ + 1 ELSE @])
       ELSE result

(***************************************************************************)
(* get_anonymous_view (game.rs:333-350) and get_available_actions           *)
(* (game.rs:65-196); the list of actions is kept as a set.                  *)
(***************************************************************************)
RECURSIVE unrevealed(_)
unrevealed(cards) ==
    IF cards = <<>> THEN 0
    ELSE (IF Head(cards).revealed THEN 0 ELSE 1) + unrevealed(Tail(cards))

OpponentView(player) == [coins |-> player.coins, hand |-> unrevealed(player.cards)]

get_anonymous_view(g) ==
    [player |-> g.player,
     players |-> [i \in 1..Len(g.players) |-> OpponentView(g.players[i])],
     blockers |-> g.blockers]

get_available_actions(player, players, blockers) ==
    LET n == Len(players)
        others(p) == {i \in 0..(n - 1) : i # p /\ At(players, i).hand > 0}
        by(p, kind) == [player |-> p, action_type |-> [kind |-> kind]]
        at(p, kind, target) ==
            [player |-> p, action_type |-> [kind |-> kind, target |-> target]]
        with(p, kind, card) ==
            [player |-> p, action_type |-> [kind |-> kind, card |-> card]]
    IN IF blockers = <<>>
       THEN IF At(players, player).coins >= MAX_COINS
            THEN {at(player, "Coup", i) : i \in others(player)}
            ELSE {by(player, kind) : kind \in {"Income", "ForeignAid", "Tax", "Exchange"}}
                 \cup {at(player, "Steal", i) : i \in others(player)}
                 \cup (IF At(players, player).coins >= ASSASSINATION_COST
                       THEN {at(player, "Assassinate", i) : i \in others(player)}
                       ELSE {})
                 \cup (IF At(players, player).coins >= COUP_COST
                       THEN {at(player, "Coup", i) : i \in others(player)}
                       ELSE {})
       ELSE LET top == last(blockers)
            IN CASE top.type = "Counteraction" ->
                      (CASE top.action_type.kind = "ForeignAid" ->
                              {by(i, "BlockForeignAid") : i \in others(top.target)}
                              \cup {by(top.target, "Complete")}
                         [] top.action_type.kind = "Assassinate" ->
                              {by(i, "BlockAssassination") : i \in others(top.target)}
                              \cup {by(i, "Challenge") : i \in others(top.target)}
                              \cup {by(top.target, "Complete")}
                         [] top.action_type.kind = "Steal" ->
                              {with(i, "BlockSteal", STEAL_BLOCKERS[c]) :
                                   i \in others(top.target), c \in 1..Len(STEAL_BLOCKERS)}
                              \cup {by(i, "Challenge") : i \in others(top.target)}
                              \cup {by(top.target, "Complete")}
                         [] top.action_type.kind \in {"Tax", "Exchange", "BlockForeignAid",
                                                      "BlockAssassination", "BlockSteal"} ->
                              {by(i, "Challenge") : i \in others(top.target)}
                              \cup {by(top.target, "Complete")}
                         [] OTHER -> {})
                 [] top.type = "Challenge" ->
                      {with(top.target, "ShowCard", top.card)}
                      \cup {with(top.target, "RevealCard", c) : c \in GameCard}
                 [] top.type = "RevealCard" ->
                      {with(top.target, "RevealCard", c) : c \in GameCard}
                 [] top.type = "DropCard" ->
                      {with(top.target, "DropCard", c) : c \in GameCard}

(***************************************************************************)
(* The games of Game that are played.  Game::new (game.rs:277-302) gives    *)
(* every player 2 coins and deals the shuffled deck from its end.  A start  *)
(* with more coins for player 0 is the start of a later round: in each      *)
(* round before it player 0 took Income and every other player took         *)
(* ForeignAid, which player 0 blocked and completed unchallenged.  That is  *)
(* 1 coin for player 0, 1 + 3 * (n - 1) accepted actions, n turns and one   *)
(* round each time, and no card moves.                                      *)
(*   two players:   hands [Ambassador, Duke], [Captain, Contessa];          *)
(*                  deck [Assassin]                                         *)
(*   three players: hands [Assassin, Ambassador], [Duke, Contessa],         *)
(*                  [Captain, Ambassador];                                  *)
(*                  deck [Assassin, Captain, Contessa, Duke]                *)
(***************************************************************************)
ThreePlayers == [players_number |-> 3, cards_per_type |-> 2]

new(sett, shuffled, rounds) ==
    [step |-> rounds * (1 + 3 * (sett.players_number - 1)),
     turn |-> rounds * sett.players_number,
     round |-> rounds,
     players |-> [i \in 1..sett.players_number |->
                     Player(IF i = 1 THEN 2 + rounds ELSE 2,
                            [k \in 1..CARDS_PER_PLAYER |->
                                PlayerCard(dealt_cards(shuffled, sett.players_number, i - 1)[k],
                                           FALSE)])],
     deck |-> dealt_deck(shuffled, sett.players_number),
     player |-> 0,
     blockers |-> <<>>]

InitialGameGames ==
    {[settings |-> TwoPlayers,
      game |-> new(TwoPlayers,
                   <<"Assassin", "Contessa", "Duke", "Captain", "Ambassador">>, rounds)] :
        rounds \in {5, 8}}
    \cup
    {[settings |-> ThreePlayers,
      game |-> new(ThreePlayers,
                   <<"Assassin", "Captain", "Contessa", "Duke", "Ambassador",
                     "Contessa", "Ambassador", "Captain", "Duke", "Assassin">>, rounds)] :
        rounds \in {1}}

GameInit ==
    \E made \in InitialGameGames :
        /\ game = made.game
        /\ accepted = made.game.step
        /\ first_step = made.game.step
        /\ settings = made.settings
        /\ state_type = Turn(0)
        /\ player_coins = <<>>
        /\ player_hands = <<>>
        /\ player_cards_counter = <<>>
        /\ player_cards = <<>>
        /\ deck = <<>>
        /\ revealed_cards = <<>>
        /\ acting = {}
        /\ turn = 0
        /\ last_error = "None"
        /\ revealed_by = <<>>
        /\ turn_player = 0
        /\ tracker = NoTracker
        /\ panicked = FALSE
        /\ session = NoSession
        /\ stats = NoStats

(***************************************************************************)
(* One accepted call of Game::play by any player of the game.  A rejected   *)
(* call returns before any field is written and is a stuttering step.  A    *)
(* block can be answered by a block without end, so the calls played are    *)
(* those that leave at most MaxBlockers blockers on the stack.  A game is   *)
(* played until it is done (game.rs:2157-2173): the last active player      *)
(* would keep the turn for ever.                                            *)
(***************************************************************************)
GamePlayers == 0..(Len(game.players) - 1)

GamePlay(action, shuffled) ==
    /\ game.step < first_step + MaxSteps
    /\ ~is_done([i \in 1..Len(game.players) |-> unrevealed(game.players[i].cards)])
    /\ LET result == play(game, action, shuffled)
       IN /\ result.err = "Ok"
          /\ Len(result.g.blockers) <= MaxBlockers
          /\ game' = result.g
          /\ accepted' = accepted + 1
    /\ UNCHANGED <<state_type, player_coins, player_hands, player_cards_counter,
                   player_cards, deck, revealed_cards, settings, acting, turn,
                   last_error, revealed_by, turn_player, first_step,
                   tracker, panicked, session, stats>>

GameAct(player, action_type) == [player |-> player, action_type |-> action_type]

GameIncome ==
    \E player \in GamePlayers : GamePlay(GameAct(player, [kind |-> "Income"]), game.deck)

GameForeignAid ==
    \E player \in GamePlayers : GamePlay(GameAct(player, [kind |-> "ForeignAid"]), game.deck)

GameCoup ==
    \E player \in GamePlayers, target \in GamePlayers :
        GamePlay(GameAct(player, [kind |-> "Coup", target |-> target]), game.deck)

GameTax ==
    \E player \in GamePlayers : GamePlay(GameAct(player, [kind |-> "Tax"]), game.deck)

GameAssassinate ==
    \E player \in GamePlayers, target \in GamePlayers :
        GamePlay(GameAct(player, [kind |-> "Assassinate", target |-> target]), game.deck)

GameExchange ==
    \E player \in GamePlayers : GamePlay(GameAct(player, [kind |-> "Exchange"]), game.deck)

GameSteal ==
    \E player \in GamePlayers, target \in GamePlayers :
        GamePlay(GameAct(player, [kind |-> "Steal", target |-> target]), game.deck)

GameBlockForeignAid ==
    \E player \in GamePlayers :
        GamePlay(GameAct(player, [kind |-> "BlockForeignAid"]), game.deck)

GameBlockAssassination ==
    \E player \in GamePlayers :
        GamePlay(GameAct(player, [kind |-> "BlockAssassination"]), game.deck)

GameBlockSteal ==
    \E player \in GamePlayers, card \in GameCard :
        GamePlay(GameAct(player, [kind |-> "BlockSteal", card |-> card]), game.deck)

GameComplete ==
    \E player \in GamePlayers : GamePlay(GameAct(player, [kind |-> "Complete"]), game.deck)

GameChallenge ==
    \E player \in GamePlayers : GamePlay(GameAct(player, [kind |-> "Challenge"]), game.deck)

GameShowCard ==
    \E player \in GamePlayers, card \in GameCard :
      \E shuffled \in Shuffles(Append(game.deck, card)) :
        GamePlay(GameAct(player, [kind |-> "ShowCard", card |-> card]), shuffled)

GameRevealCard ==
    \E player \in GamePlayers, card \in GameCard :
        GamePlay(GameAct(player, [kind |-> "RevealCard", card |-> card]), game.deck)

GameDropCard ==
    \E player \in GamePlayers, card \in GameCard :
        GamePlay(GameAct(player, [kind |-> "DropCard", card |-> card]), game.deck)

GameNext ==
    \/ GameIncome
    \/ GameForeignAid
    \/ GameCoup
    \/ GameTax
    \/ GameAssassinate
    \/ GameExchange
    \/ GameSteal
    \/ GameBlockForeignAid
    \/ GameBlockAssassination
    \/ GameBlockSteal
    \/ GameComplete
    \/ GameChallenge
    \/ GameShowCard
    \/ GameRevealCard
    \/ GameDropCard

GameSpec == GameInit /\ [][GameNext]_vars

(***************************************************************************)
(* What the properties of Game speak of: the actions the enumerator lists   *)
(* for the current state, and whether Game::play accepts an action there.   *)
(* Whether a call is accepted does not depend on the shuffle.               *)
(***************************************************************************)
Available ==
    get_available_actions(game.player, get_anonymous_view(game).players, game.blockers)

Accepts(action) ==
    play(game, action,
         IF action.action_type.kind = "ShowCard"
         THEN Append(game.deck, action.action_type.card)
         ELSE game.deck).err = "Ok"

HoldsCard(action) ==
    find_unrevealed(At(game.players, action.player).cards, action.action_type.card) # 0

\* C24 as stated: every action the enumerator lists is accepted.
C24_AsStated == \A action \in Available : Accepts(action)

\* C24: every action the enumerator lists is accepted by Game::play in the
\* same state, unless it is a ShowCard, RevealCard or DropCard of a card the
\* player does not hold unrevealed: the enumerator sees hand sizes only and
\* lists those for every kind of card.
C24_Soundness ==
    \A action \in Available :
        (action.action_type.kind \in {"ShowCard", "RevealCard", "DropCard"}
            => HoldsCard(action))
        => Accepts(action)

\* a challenge is open after some accepted actions: the challenged player is
\* offered the card to show and every card to reveal, and holds only some
C24_Witness ==
    /\ game.step > first_step
    /\ game.blockers # <<>>
    /\ last(game.blockers).type = "Challenge"
    /\ \E action \in Available :
           action.action_type.kind = "ShowCard" /\ HoldsCard(action) /\ Accepts(action)
    /\ \E action \in Available :
           action.action_type.kind = "RevealCard" /\ ~HoldsCard(action) /\ ~Accepts(action)

\* C25: an action that the enumerator does not list for the current state
\* is rejected by Game::play in that state.
C25_Completeness ==
    \A action \in GameAction(Len(game.players)) \ Available : ~Accepts(action)

(***************************************************************************)
(* A block that was challenged and proved: under the RevealCard blocker of  *)
(* the challenger lies the block, whose source is the challenger, and under *)
(* it the blocked action, whose source is the blocker.  Only show_card puts *)
(* a RevealCard blocker on top of a Counteraction.                          *)
(***************************************************************************)
BlockKindOf(action_type) ==
    CASE action_type.kind = "ForeignAid" -> {"BlockForeignAid"}
      [] action_type.kind = "Steal" -> {"BlockSteal"}
      [] action_type.kind = "Assassinate" -> {"BlockAssassination"}
      [] OTHER -> {}

ProvedBlock ==
    /\ Len(game.blockers) = 3
    /\ game.blockers[1].type = "Counteraction"
    /\ game.blockers[2].type = "Counteraction"
    /\ game.blockers[3].type = "RevealCard"
    /\ game.blockers[2].action_type.kind \in BlockKindOf(game.blockers[1].action_type)
    /\ game.blockers[1].source = Some(game.blockers[2].target)
    /\ game.blockers[2].source = Some(game.blockers[3].target)
    /\ game.blockers[3].target # game.blockers[2].target

\* C26: when a BlockForeignAid, BlockSteal or BlockAssassination was
\* challenged by a player other than the blocker and the blocker showed the
\* claimed card, the card the challenger then reveals ends the turn without
\* the blocked action: no player's coins change, no player but the
\* challenger loses or is asked for a card, and the next active player is on
\* turn.
C26_Step ==
    (ProvedBlock /\ game' # game)
    => /\ \A i \in 1..Len(game.players) : game'.players[i].coins = game.players[i].coins
       /\ \A i \in 1..Len(game.players) :
              i - 1 # game.blockers[3].target => game'.players[i].cards = game.players[i].cards
       /\ game'.blockers = <<>>
       /\ game'.player # game.player

C26_BlockPrevents == [][C26_Step]_vars

\* the counters of Game
Counters(g) == <<g.step, g.turn, g.round>>

C27_Rejected ==
    \A action \in GameAction(Len(game.players)) :
        LET result == play(game, action,
                           IF action.action_type.kind = "ShowCard"
                           THEN Append(game.deck, action.action_type.card)
                           ELSE game.deck)
        IN result.err # "Ok" => Counters(result.g) = Counters(game)

C27_Accepted ==
    accepted' = accepted + 1
    => /\ game'.step = game.step + 1
       /\ game'.turn = game.turn + (IF game'.player # game.player THEN 1 ELSE 0)
       /\ game'.round = game.round + (IF game'.player < game.player THEN 1 ELSE 0)

\* C27: step grows by exactly 1 with every accepted action and equals the
\* number of accepted actions, a rejected action changes none of step, turn
\* and round, turn grows by exactly 1 exactly when another player comes on
\* turn, and round grows by exactly 1 exactly when the index of the new
\* player on turn is lower than that of the previous one.
C27_Counters ==
    /\ [](game.step = accepted /\ C27_Rejected)
    /\ [][C27_Accepted]_vars

\* two players each took Income from the start of the sixth round: the turn
\* came back to player 0 and the seventh round began
C27_Witness ==
    /\ Len(game.players) = 2
    /\ game.step = first_step + 2
    /\ accepted = 22
    /\ game.player = 0
    /\ game.turn = 12
    /\ game.round = 6

(***************************************************************************)
(* CardsTracker (bots.rs:193-990): what one player can tell of the cards    *)
(* of the others and of the deck.  A CardCollection {known, unknown}        *)
(* (bots.rs:193-229) is a sequence of cards that holds "Unknown" once for   *)
(* every unknown card, before the known cards: Card::Unknown is the least   *)
(* card, so the hand of an opponent is a sorted sequence just as the hand of *)
(* the player is, and the known cards of the deck keep the order in which   *)
(* they were pushed.                                                        *)
(***************************************************************************)
\* Iterator::collect: the elements, each computed once
collect(elements) == <<>> \o elements

\* the value of a let binding: the one element of the set
Value(set) == CHOOSE value \in set : TRUE

known(cards) == SelectSeq(cards, LAMBDA c : c # "Unknown")

unknown(cards) == Len(cards) - Len(known(cards))

CardCollection(known_cards, unknown_cards) ==
    [i \in 1..unknown_cards |-> "Unknown"] \o known_cards

has_any(cards) == unknown(cards) > 0

contains_known(cards, card) == \E i \in 1..Len(known(cards)) : known(cards)[i] = card

replace_any_by_known(cards, card) ==
    CardCollection(Append(known(cards), card), unknown(cards) - 1)

\* CardCollection::sort, GamePlayerCards::sort
sort_known(cards) == CardCollection(sort(known(cards)), unknown(cards))

\* PlayerCards::drop_card of a CardCollection (bots.rs:250-265): the first
\* known card that is equal, otherwise an unknown card
collection_drop_card(cards, card) ==
    IF contains_known(cards, card) THEN drop_card(cards, card)
    ELSE drop_card(cards, "Unknown")

\* Deck::push_card of a CardCollection (bots.rs:935-941)
collection_push_card(cards, card) ==
    IF card = "Unknown" THEN CardCollection(known(cards), unknown(cards) + 1)
    ELSE Append(cards, card)

(***************************************************************************)
(* GameState (bots.rs:364-374) is a record of valid and the seven fields of *)
(* State.  The order of its derive(Ord) is the order of the keys below: the *)
(* fields in the order of their declaration, an enum by the index of its    *)
(* variant before the fields of the variant, a Vec element by element with  *)
(* the shorter of two that agree first.                                     *)
(***************************************************************************)
RECURSIVE Flatten(_)
Flatten(keys) == IF keys = <<>> THEN <<>> ELSE Head(keys) \o Flatten(Tail(keys))

\* every element is announced by 1 and the end of the Vec by 0
VecKey(keys) == Flatten([i \in 1..Len(keys) |-> <<1>> \o keys[i]]) \o <<0>>

NumbersKey(numbers) == VecKey([i \in 1..Len(numbers) |-> <<numbers[i]>>])

CardsKey(cards) == VecKey([i \in 1..Len(cards) |-> <<CardOrd(cards[i])>>])

BoolKey(b) == IF b THEN 1 ELSE 0

ChallengeStateKey(state) ==
    CASE state.type = "Initial" ->
            <<0, state.initiator, state.target, CardOrd(state.card)>>
      [] state.type = "ShownCard" -> <<1, state.initiator, state.target>>
      [] state.type = "InitiatorRevealedCard" -> <<2, state.target>>
      [] state.type = "DeckShuffled" -> <<3, state.target>>
      [] state.type = "TookCard" -> <<4>>
      [] state.type = "TargetRevealedCard" -> <<5>>

RECURSIVE StateTypeKey(_)
StateTypeKey(st) ==
    CASE st.type = "Turn" -> <<0, st.player>>
      [] st.type = "ForeignAid" -> <<1, st.player>>
      [] st.type = "Tax" -> <<2, st.player>>
      [] st.type = "Exchange" -> <<3, st.player>>
      [] st.type = "Assassination" ->
            <<4, st.player, st.target, BoolKey(st.can_challenge)>>
      [] st.type = "Steal" -> <<5, st.player, st.target, BoolKey(st.can_challenge)>>
      [] st.type = "Challenge" ->
            <<6, st.current_player>> \o StateTypeKey(st.source)
                \o ChallengeStateKey(st.state)
      [] st.type = "BlockForeignAid" -> <<7, st.player, st.target>>
      [] st.type = "NeedCards" -> <<8, st.player, st.count>>
      [] st.type = "TookCards" -> <<9, st.player, st.count>>
      [] st.type = "DroppedCard" -> <<10, st.player, st.left>>
      [] st.type = "BlockAssassination" -> <<11, st.player, st.target>>
      [] st.type = "BlockSteal" ->
            <<12, st.player, st.target, CardOrd(st.card)>>
      [] st.type = "LostInfluence" -> <<13, st.player, st.current_player>>

\* CardCollection: known before unknown
CardCollectionKey(cards) == CardsKey(known(cards)) \o <<unknown(cards)>>

\* GamePlayerCards (bots.rs:267-271): Player(Vec<Card>) or Opponent(CardCollection)
GamePlayerCardsKey(cards, is_player) ==
    IF is_player THEN <<0>> \o CardsKey(cards) ELSE <<1>> \o CardCollectionKey(cards)

GameStateKey(game_state, player) ==
    <<BoolKey(game_state.valid)>>
        \o StateTypeKey(game_state.state_type)
        \o NumbersKey(game_state.player_coins)
        \o NumbersKey(game_state.player_hands)
        \o NumbersKey(game_state.player_cards_counter)
        \o VecKey([i \in 1..Len(game_state.player_cards) |->
                      GamePlayerCardsKey(game_state.player_cards[i], i - 1 = player)])
        \o CardsKey(game_state.revealed_cards)
        \o CardCollectionKey(game_state.deck)

\* the first key comes before the second
KeyLess(a, b) ==
    \E i \in 1..Len(a) :
        /\ i <= Len(b)
        /\ a[i] < b[i]
        /\ \A j \in 1..(i - 1) : a[j] = b[j]

\* Vec::sort of the beliefs by their derived order, a stable sort
sort_game_states(game_states, player) ==
    LET keyed == collect([i \in 1..Len(game_states) |->
                     [key |-> GameStateKey(game_states[i], player),
                      game_state |-> game_states[i]]])
        sorted == SortSeq(keyed, LAMBDA a, b : KeyLess(a.key, b.key))
    IN collect([i \in 1..Len(sorted) |-> sorted[i].game_state])

\* Vec::dedup: of consecutive equal elements the first is kept
dedup(game_states) ==
    LET kept == SelectSeq([i \in 1..Len(game_states) |-> i],
                          LAMBDA i : i = 1 \/ game_states[i] # game_states[i - 1])
    IN collect([k \in 1..Len(kept) |-> game_states[kept[k]]])

\* retain that leaves no belief once one of them is not valid
retain_none(game_states) ==
    IF \A i \in 1..Len(game_states) : game_states[i].valid THEN game_states ELSE <<>>

\* Vec::retain(|game_state| game_state.valid)
retain_valid(game_states) ==
    SelectSeq(game_states, LAMBDA game_state : game_state.valid)

(***************************************************************************)
(* Replaying an action in a belief: GameState::with_default                 *)
(* (bots.rs:591-605), with_pop_known_from_deck (bots.rs:607-627) and        *)
(* with_pop_unknown_from_deck (bots.rs:629-647) hand the fields of the      *)
(* belief to play_action and set valid to whether it returned Ok.  The      *)
(* result is the belief and whether the replay ended in a panic             *)
(* (unimplemented!, an unwrap of None, an underflow).                       *)
(***************************************************************************)
Replayed(game_state) == [panic |-> FALSE, game_state |-> game_state]

Panicked(game_state) == [panic |-> TRUE, game_state |-> game_state]

\* PlayerCards of GamePlayerCards (bots.rs:329-362) as play_action uses it.
\* play_action asks has_card(card) of the hand of the acting player only to
\* drop_card(card) from it next.  The hand of an opponent that does not know
\* the card says yes when it has an unknown card, and then drops the
\* unknown card: the unknown card is the card of the action.
as_known(cards, action_type) ==
    IF /\ action_type.kind \in {"ShowCard", "RevealCard", "DropCard"}
       /\ ~has_card(cards, action_type.card)
       /\ has_any(cards)
    THEN sort(Append(drop_card(cards, "Unknown"), action_type.card))
    ELSE cards

\* play_action on the fields of the belief, over the given deck
replay(game_state, action, cards_of_deck) ==
    play_action(action,
                [state_type |-> game_state.state_type,
                 player_coins |-> game_state.player_coins,
                 player_hands |-> game_state.player_hands,
                 player_cards_counter |-> game_state.player_cards_counter,
                 player_cards |->
                     Put(game_state.player_cards, action.player,
                         as_known(At(game_state.player_cards, action.player),
                                  action.action_type)),
                 deck |-> cards_of_deck,
                 revealed_cards |-> game_state.revealed_cards],
                cards_of_deck)

\* the belief after the replay, with the deck the wrapper leaves
replayed_game_state(game_state, action, r, cards_of_deck) ==
    [valid |-> r.err = "Ok",
     state_type |-> r.s.state_type,
     player_coins |-> r.s.player_coins,
     player_hands |-> r.s.player_hands,
     player_cards_counter |-> r.s.player_cards_counter,
     player_cards |->
         IF r.err = "Ok" THEN r.s.player_cards ELSE game_state.player_cards,
     deck |-> cards_of_deck,
     revealed_cards |-> r.s.revealed_cards]

\* Deck of CardCollection (bots.rs:925-943): pop_card is unimplemented,
\* push_card counts an unknown card or appends a known one, shuffle does
\* nothing
with_default(game_state, action) ==
    Value({IF \/ r.err = "Panic"
              \/ action.action_type.kind = "TakeCard" /\ r.err = "Ok"
           THEN Panicked(game_state)
           ELSE Replayed(replayed_game_state(
                    game_state, action, r,
                    CardCollection(known(r.s.deck), unknown(r.s.deck)))) :
               r \in {replay(game_state, action, game_state.deck)}})

\* the wrappers of the deck that pop: push_card and shuffle are unimplemented
with_pop(game_state, action, rest, card) ==
    Value({IF \/ r.err = "Panic"
              \/ /\ r.err = "Ok"
                 /\ action.action_type.kind \in {"ShowCard", "DropCard", "ShuffleDeck"}
           THEN Panicked(game_state)
           ELSE Replayed(replayed_game_state(
                    game_state, action, r,
                    IF r.err = "Ok" /\ action.action_type.kind = "TakeCard"
                    THEN rest
                    ELSE game_state.deck)) :
               r \in {replay(game_state, action, Append(rest, card))}})

\* PopKnownFromDeck (bots.rs:945-967): pop_card drops the card from the deck
\* and returns it
with_pop_known_from_deck(game_state, card, action) ==
    IF ~has_any(game_state.deck) /\ ~contains_known(game_state.deck, card)
    THEN Panicked(game_state)
    ELSE with_pop(game_state, action,
                  collection_drop_card(game_state.deck, card), card)

\* PopUnknownFromDeck (bots.rs:969-990): pop_card takes an unknown card
with_pop_unknown_from_deck(game_state, action) ==
    IF ~has_any(game_state.deck) THEN Panicked(game_state)
    ELSE with_pop(game_state, action, drop_card(game_state.deck, "Unknown"),
                  "Unknown")

(***************************************************************************)
(* GameState::initial (bots.rs:377-515): the beliefs at the deal.  The      *)
(* copies of the kinds in the hand of the player that the player does not   *)
(* hold are given to the opponents and to the deck in every way; target     *)
(* `player` stands for the deck.                                            *)
(***************************************************************************)
RECURSIVE Power(_, _)
Power(base, exponent) == IF exponent = 0 THEN 1 ELSE base * Power(base, exponent - 1)

\* Itertools::combinations_with_replacement: the non-decreasing choices of k
\* of the targets, in lexicographic order
combinations_with_replacement(targets, k) ==
    LET n == Len(targets)
        tuple(m) == [i \in 1..k |-> targets[((m \div Power(n, k - i)) % n) + 1]]
    IN SelectSeq(collect([m \in 1..Power(n, k) |-> tuple(m - 1)]),
                 LAMBDA c : \A i \in 1..(k - 1) : c[i] <= c[i + 1])

\* the loop over the chosen opponents without the test for an unknown card
RECURSIVE replace_by_known_unchecked(_, _, _, _)
replace_by_known_unchecked(game_state, opponents, card, player) ==
    IF opponents = <<>> THEN [add |-> TRUE, game_state |-> game_state]
    ELSE replace_by_known_unchecked(
             IF Head(opponents) = player
             THEN [game_state EXCEPT !.deck = replace_any_by_known(@, card)]
             ELSE [game_state EXCEPT !.player_cards =
                      Put(@, Head(opponents),
                          replace_any_by_known(At(@, Head(opponents)), card))],
             Tail(opponents), card, player)

\* one loop over the chosen opponents; add is false once one of them has no
\* unknown card left
RECURSIVE replace_by_known(_, _, _, _)
replace_by_known(game_state, opponents, card, player) ==
    IF opponents = <<>> THEN [add |-> TRUE, game_state |-> game_state]
    ELSE LET opponent == Head(opponents)
         IN IF opponent = player
            THEN IF ~has_any(game_state.deck)
                 THEN [add |-> FALSE, game_state |-> game_state]
                 ELSE replace_by_known(
                          [game_state EXCEPT !.deck = replace_any_by_known(@, card)],
                          Tail(opponents), card, player)
            ELSE IF ~has_any(At(game_state.player_cards, opponent))
                 THEN [add |-> FALSE, game_state |-> game_state]
                 ELSE replace_by_known(
                          [game_state EXCEPT !.player_cards =
                              Put(@, opponent,
                                  replace_any_by_known(At(@, opponent), card))],
                          Tail(opponents), card, player)

initial(player, cards, sett) ==
    LET unique_cards == dedup(sort(cards))
        deck_len == sett.cards_per_type * Len(ALL_CARDS)
                        - sett.players_number * CARDS_PER_PLAYER
        base_game_state ==
            [valid |-> TRUE,
             state_type |-> Turn(0),
             player_coins |-> [i \in 1..sett.players_number |-> INITIAL_COINS],
             player_hands |-> [i \in 1..sett.players_number |-> CARDS_PER_PLAYER],
             player_cards_counter |->
                 [i \in 1..sett.players_number |-> CARDS_PER_PLAYER],
             player_cards |->
                 [i \in 1..sett.players_number |->
                     IF i - 1 = player THEN cards
                     ELSE CardCollection(<<>>, CARDS_PER_PLAYER)],
             deck |-> CardCollection(<<>>, deck_len),
             revealed_cards |-> <<>>]
        targets == SelectSeq([i \in 1..sett.players_number |-> i - 1],
                             LAMBDA v : v # player \/ (v = player /\ deck_len > 0))
        of_one ==
            IF sett.cards_per_type > 2
            THEN LET opponents ==
                         combinations_with_replacement(targets, sett.cards_per_type - 2)
                 IN collect([i \in 1..Len(opponents) |->
                                replace_by_known(base_game_state, opponents[i],
                                                 unique_cards[1], player)])
            ELSE <<>>
        of_two ==
            IF sett.cards_per_type > 1
            THEN LET opponents ==
                         combinations_with_replacement(targets, sett.cards_per_type - 1)
                     n == Len(opponents)
                     both(first_opponents, second_opponents) ==
                         Value({IF ~first.add THEN first
                                ELSE replace_by_known(first.game_state, second_opponents,
                                                      unique_cards[2], player) :
                                   first \in {replace_by_known(
                                                  base_game_state, first_opponents,
                                                  unique_cards[1], player)}})
                 IN collect([m \in 1..(n * n) |->
                                both(opponents[((m - 1) \div n) + 1],
                                     opponents[((m - 1) % n) + 1])])
            ELSE <<>>
        added == SelectSeq(IF Len(unique_cards) = 1 THEN of_one ELSE of_two,
                           LAMBDA g : g.add)
        result == IF added = <<>> THEN <<base_game_state>>
                  ELSE collect([i \in 1..Len(added) |-> added[i].game_state])
        sorted == collect([k \in 1..Len(result) |->
                     [result[k] EXCEPT
                         !.player_cards =
                             [i \in 1..Len(@) |->
                                 IF i - 1 = player THEN sort(@[i]) ELSE sort_known(@[i])],
                         !.deck = sort_known(@)]])
    IN dedup(sort_game_states(sorted, player))

\* CardsTracker::new (bots.rs:658-666)
CardsTracker(player, hand, sett) ==
    [player |-> player,
     cards_per_type |-> sett.cards_per_type,
     game_states |-> initial(player, hand, sett),
     last_action |-> <<>>]

\* ActionView::from_action (bots.rs:49-56, 80-103): the card of a DropCard
\* is not seen
from_action(action) ==
    IF action.action_type.kind = "DropCard"
    THEN [player |-> action.player, action_type |-> [kind |-> "DropCard"]]
    ELSE action

\* the PlayerView a tracker is given: what its player sees of the State
player_view(s, player) ==
    [player |-> player,
     coins |-> At(s.player_coins, player),
     cards |-> At(s.player_cards, player),
     state_type |-> s.state_type,
     player_coins |-> s.player_coins,
     player_hands |-> s.player_hands,
     player_cards |-> s.player_cards_counter,
     revealed_cards |-> s.revealed_cards,
     deck |-> Len(s.deck)]

\* the end of the updates without the dedup
updated_without_dedup(self, replays, action_view) ==
    Value({[panic |-> \E i \in 1..Len(replayed) : replayed[i].panic,
            self |->
               [self EXCEPT
                   !.game_states =
                       retain_valid(sort_game_states(
                           collect([i \in 1..Len(replayed) |->
                                       replayed[i].game_state]),
                           self.player)),
                   !.last_action = <<action_view>>]] :
              replayed \in {replays}})

\* the end of both updates: sort, dedup, retain, last_action
updated(self, replays, action_view) ==
    Value({[panic |-> \E i \in 1..Len(replayed) : replayed[i].panic,
            self |->
               [self EXCEPT
                   !.game_states =
                       Value({retain_valid(dedup(sorted)) :
                                 sorted \in
                                     {sort_game_states(
                                          collect([i \in 1..Len(replayed) |->
                                                      replayed[i].game_state]),
                                          self.player)}}),
                   !.last_action = <<action_view>>]] :
              replayed \in {replays}})

(***************************************************************************)
(* CardsTracker::after_player_action (bots.rs:668-701).                     *)
(***************************************************************************)
\* taken_card that takes the last card of the view whatever the belief holds
taken_card_last(view_cards, cards) == view_cards[Len(view_cards)]

\* the card the player drew: the first card of the view that differs from
\* the card of the belief at its place, or the last card of the view
taken_card(view_cards, cards) ==
    LET differ == {i \in 1..Len(view_cards) : i <= Len(cards) /\ view_cards[i] # cards[i]}
    IN IF differ # {}
       THEN view_cards[CHOOSE i \in differ : \A j \in differ : i <= j]
       ELSE view_cards[Len(view_cards)]

\* the body of the loop for one belief
player_replay(game_state, view, action) ==
    IF Len(game_state.deck) > view.deck
    THEN IF view.cards = <<>> THEN Panicked(game_state)
         ELSE LET card == taken_card(view.cards,
                                     At(game_state.player_cards, action.player))
              IN IF ~has_any(game_state.deck) /\ ~contains_known(game_state.deck, card)
                 THEN Replayed([game_state EXCEPT !.valid = FALSE])
                 ELSE with_pop_known_from_deck(game_state, card, action)
    ELSE with_default(game_state, action)

\* after_player_action that keeps every belief as it was beside its replay
after_player_action_keeping(self, view, action) ==
    updated(self,
            collect([i \in 1..Len(self.game_states) |->
                        player_replay(self.game_states[i], view, action)])
                \o collect([i \in 1..Len(self.game_states) |->
                               Replayed(self.game_states[i])]),
            from_action(action))

after_player_action(self, view, action) ==
    updated(self,
            collect([i \in 1..Len(self.game_states) |->
                        player_replay(self.game_states[i], view, action)]),
            from_action(action))

(***************************************************************************)
(* CardsTracker::after_opponent_action (bots.rs:703-808).  The body of the  *)
(* loop for one belief gives the belief as it is left in its place, the     *)
(* copies pushed to the end of game_states (the loop does not visit them),  *)
(* and whether it ended in a panic.                                         *)
(***************************************************************************)
Visited(replay_in_place, copies) ==
    Value({[panic |-> in_place.panic \/ \E i \in 1..Len(copied) : copied[i].panic,
            game_state |-> in_place.game_state,
            pushed |->
                Value({collect([i \in 1..Len(valid_copies) |->
                                   valid_copies[i].game_state]) :
                          valid_copies \in
                              {SelectSeq(copied, LAMBDA c : c.game_state.valid)}})] :
              in_place \in {replay_in_place}, copied \in {copies}})

Invalid(game_state) == Replayed([game_state EXCEPT !.valid = FALSE])

\* a card returned to the deck: DropCard of every known card and of an
\* unknown one, or ShowCard of the card that was shown
returned_to_deck(game_state, action_view) ==
    LET cards == At(game_state.player_cards, action_view.player)
        kind == action_view.action_type.kind
        action_of(card) ==
            [player |-> action_view.player,
             action_type |->
                 IF kind = "DropCard" THEN [kind |-> "DropCard", card |-> card]
                 ELSE action_view.action_type]
    IN IF kind \notin {"DropCard", "ShowCard"}
       THEN IF known(cards) = <<>> /\ ~has_any(cards)
            THEN Visited(Invalid(game_state), <<>>)
            ELSE Visited(Panicked(game_state), <<>>)
       ELSE Visited(IF has_any(cards)
                    THEN with_default(game_state, action_of("Unknown"))
                    ELSE Invalid(game_state),
                    collect([i \in 1..Len(known(cards)) |->
                                with_default(game_state, action_of(known(cards)[i]))]))

\* a card taken from the deck: every known card of the deck and an unknown
\* one
taken_from_deck(game_state, action_view) ==
    LET cards == known(game_state.deck)
        action == [player |-> action_view.player, action_type |-> [kind |-> "TakeCard"]]
    IN IF action_view.action_type.kind # "TakeCard"
       THEN IF cards = <<>> /\ ~has_any(game_state.deck)
            THEN Visited(Invalid(game_state), <<>>)
            ELSE Visited(Panicked(game_state), <<>>)
       ELSE Visited(IF has_any(game_state.deck)
                    THEN with_pop_unknown_from_deck(game_state, action)
                    ELSE Invalid(game_state),
                    collect([i \in 1..Len(cards) |->
                                with_pop_known_from_deck(game_state, cards[i], action)]))

opponent_replay(game_state, view, action_view) ==
    IF At(game_state.player_cards_counter, action_view.player)
           = At(view.player_cards, action_view.player)
    THEN \* ActionTypeView::as_action_type has no conversion of DropCard
         IF action_view.action_type.kind = "DropCard"
         THEN Visited(Panicked(game_state), <<>>)
         ELSE Visited(with_default(game_state, action_view), <<>>)
    ELSE IF Len(game_state.revealed_cards) # Len(view.revealed_cards)
    THEN IF action_view.action_type.kind # "RevealCard"
         THEN Visited(Panicked(game_state), <<>>)
         ELSE Visited(with_default(game_state, action_view), <<>>)
    ELSE IF Len(game_state.deck) < view.deck
    THEN returned_to_deck(game_state, action_view)
    ELSE IF Len(game_state.deck) > view.deck
    THEN taken_from_deck(game_state, action_view)
    ELSE Visited(Panicked(game_state), <<>>)

after_opponent_action(self, view, action_view) ==
    Value({updated(self,
                   [i \in 1..Len(visited) |->
                       [panic |-> visited[i].panic,
                        game_state |-> visited[i].game_state]]
                       \o Flatten([i \in 1..Len(visited) |->
                                      [j \in 1..Len(visited[i].pushed) |->
                                          Replayed(visited[i].pushed[j])]]),
                   action_view) :
              visited \in
                  {collect([i \in 1..Len(self.game_states) |->
                               opponent_replay(self.game_states[i], view,
                                               action_view)])}})

(***************************************************************************)
(* The tracked game: the FSM is played from a deal and the CardsTracker of   *)
(* one of the players is given every accepted action with the view of its   *)
(* player after it, as the callers do (main.rs:206-224,                     *)
(* interactive.rs:533-548): after_player_action for the actions of its      *)
(* player, after_opponent_action with the ActionView for the others.  A     *)
(* tracker that ended in a panic is given nothing more.  accepted counts    *)
(* the actions the tracker was given.                                       *)
(***************************************************************************)
TrackedGames ==
    {[settings |-> TwoPlayers,
      shuffled |-> <<"Assassin", "Contessa", "Duke", "Captain", "Ambassador">>],
     [settings |-> TwoPlayersTwoCards,
      shuffled |-> <<"Duke", "Assassin", "Contessa", "Duke", "Captain", "Assassin",
                     "Contessa", "Captain", "Ambassador", "Ambassador">>],
     [settings |-> TwoPlayersTwoCards,
      shuffled |-> <<"Duke", "Assassin", "Contessa", "Captain", "Captain", "Assassin",
                     "Duke", "Ambassador", "Contessa", "Ambassador">>]}

TrackerInit ==
    \E dealt \in TrackedGames, player \in 0..1 :
      LET sett == dealt.settings
          shuffled == dealt.shuffled
      IN
        /\ settings = sett
        /\ player_coins = [i \in 1..sett.players_number |-> INITIAL_COINS]
        /\ state_type = Turn(0)
        /\ player_hands = [i \in 1..sett.players_number |-> CARDS_PER_PLAYER]
        /\ player_cards_counter = [i \in 1..sett.players_number |-> CARDS_PER_PLAYER]
        /\ player_cards = [i \in 1..sett.players_number |->
                              dealt_cards(shuffled, sett.players_number, i - 1)]
        /\ deck = dealt_deck(shuffled, sett.players_number)
        /\ revealed_cards = <<>>
        /\ acting = 0..(sett.players_number - 1)
        /\ turn = 0
        /\ last_error = "None"
        /\ revealed_by = <<>>
        /\ turn_player = 0
        /\ game = NoGame
        /\ accepted = 0
        /\ first_step = 0
        /\ tracker = CardsTracker(player,
                                  dealt_cards(shuffled, sett.players_number, player),
                                  sett)
        /\ panicked = FALSE
        /\ session = NoSession
        /\ stats = NoStats

Track(action, shuffled) ==
    /\ turn < MaxTurn
    /\ accepted < MaxObserved
    /\ ~panicked
    /\ \E r \in {play_action(action, State, shuffled)} :
       /\ r.err = "Ok"
       /\ state_type' = r.s.state_type
       /\ player_coins' = r.s.player_coins
       /\ player_hands' = r.s.player_hands
       /\ player_cards_counter' = r.s.player_cards_counter
       /\ player_cards' = r.s.player_cards
       /\ deck' = r.s.deck
       /\ revealed_cards' = r.s.revealed_cards
       /\ turn' = IF r.value.type = "Turn" THEN turn + 1 ELSE turn
       /\ \E update \in
              {IF action.player = tracker.player
               THEN after_player_action(tracker, player_view(r.s, tracker.player),
                                        action)
               ELSE after_opponent_action(tracker,
                                          player_view(r.s, tracker.player),
                                          from_action(action))} :
           /\ panicked' = update.panic
           /\ tracker' = IF update.panic THEN tracker ELSE update.self
    /\ accepted' = accepted + 1
    /\ UNCHANGED <<settings, acting, last_error, revealed_by, turn_player,
                   game, first_step, session, stats>>

Observed(action) ==
    \E shuffled \in (IF action.action_type.kind = "ShuffleDeck"
                     THEN Shuffles(deck) ELSE {deck}) :
        Track(action, shuffled)

AfterPlayerAction ==
    \E action \in Actions : action.player = tracker.player /\ Observed(action)

AfterOpponentAction ==
    \E action \in Actions : action.player # tracker.player /\ Observed(action)

TrackerNext == AfterPlayerAction \/ AfterOpponentAction

TrackerSpec == TrackerInit /\ [][TrackerNext]_vars

(***************************************************************************)
(* What the properties of the tracker speak of.                             *)
(***************************************************************************)
\* the number of cards of the kind among the cards
CountOf(cards, card) == Cardinality({i \in 1..Len(cards) : cards[i] = card})

\* every card the collection marks as known is among the cards, and the
\* collection has as many cards
KnownOf(collection, cards) ==
    /\ Len(collection) = Len(cards)
    /\ \A card \in Card \ {"Unknown"} :
           CountOf(collection, card) <= CountOf(cards, card)

\* the belief agrees with the true state of the game
Agrees(game_state) ==
    /\ game_state.state_type = state_type
    /\ game_state.player_coins = player_coins
    /\ game_state.player_hands = player_hands
    /\ game_state.player_cards_counter = player_cards_counter
    /\ game_state.revealed_cards = revealed_cards
    /\ sort(At(game_state.player_cards, tracker.player))
           = sort(At(player_cards, tracker.player))
    /\ \A p \in Players \ {tracker.player} :
           KnownOf(At(game_state.player_cards, p), At(player_cards, p))
    /\ KnownOf(game_state.deck, deck)

(***************************************************************************)
(* C28.  Tracker truth-preservation: when a game and the CardsTracker of    *)
(* one of its players start from the same deal and the tracker is given     *)
(* every accepted action with the view after it, the tracker never ends in  *)
(* a panic and its beliefs always contain one that agrees with the true     *)
(* state: the same state type, coins, hand sizes, card counters, revealed   *)
(* cards and deck size, the exact hand of its player, and every card it     *)
(* marks as known in the hand of an opponent or in the deck is there.       *)
(***************************************************************************)
C28_TruthPreserved ==
    /\ ~panicked
    /\ \E i \in 1..Len(tracker.game_states) : Agrees(tracker.game_states[i])

\* an opponent returned a card to the deck after an exchange; of the beliefs
\* left one agrees with the true state and another does not
C28_Witness ==
    /\ ~panicked
    /\ tracker.last_action # <<>>
    /\ tracker.last_action[1].action_type.kind = "DropCard"
    /\ tracker.last_action[1].player # tracker.player
    /\ \E i, j \in 1..Len(tracker.game_states) :
           /\ Agrees(tracker.game_states[i])
           /\ ~Agrees(tracker.game_states[j])

\* the beliefs of a list
Beliefs(game_states) == {game_states[i] : i \in 1..Len(game_states)}

\* the beliefs are in the strict order of derive(Ord): sorted, none twice
StrictlySorted(game_states, player) ==
    \A i \in 1..(Len(game_states) - 1) :
        KeyLess(GameStateKey(game_states[i], player),
                GameStateKey(game_states[i + 1], player))

\* the beliefs after the replay of the action, of the replays that were
\* accepted
AcceptedReplays(self, view, action) ==
    IF action.player = self.player
    THEN {r.game_state :
             r \in {r \in {player_replay(self.game_states[i], view, action) :
                              i \in 1..Len(self.game_states)} : r.game_state.valid}}
    ELSE LET visited == {opponent_replay(self.game_states[i], view, from_action(action)) :
                            i \in 1..Len(self.game_states)}
         IN {v.game_state : v \in {v \in visited : v.game_state.valid}}
                \cup UNION {Beliefs(v.pushed) : v \in visited}

\* the State after the step
StateAfter ==
    [state_type |-> state_type', player_coins |-> player_coins',
     player_hands |-> player_hands',
     player_cards_counter |-> player_cards_counter',
     player_cards |-> player_cards', deck |-> deck',
     revealed_cards |-> revealed_cards']

C29_Step ==
    \A action \in Actions :
        (~panicked' /\ \E shuffled \in Orders : Track(action, shuffled)) =>
            /\ StrictlySorted(tracker'.game_states, tracker.player)
            /\ Beliefs(tracker'.game_states)
                   = AcceptedReplays(tracker, player_view(StateAfter, tracker.player),
                                     action)

(***************************************************************************)
(* C29.  A rejecting belief is dropped without harming the others: after    *)
(* each update of the tracker its beliefs are sorted and none is there      *)
(* twice, none of them is a belief in which the replay of the observed      *)
(* action was rejected, and the successor of every belief in which the      *)
(* replay was accepted is among them.                                       *)
(***************************************************************************)
C29_RejectingDropped ==
    /\ [](\A i \in 1..Len(tracker.game_states) : tracker.game_states[i].valid)
    /\ [][C29_Step]_vars

\* player 0 holds an Ambassador and a Captain and the deal left its tracker
\* four beliefs; its opponent lost a challenge and revealed a Contessa: the
\* belief that knew the opponent to hold the other Ambassador and the other
\* Captain rejected the action and is gone, the other three are left
C29_Witness ==
    /\ ~panicked
    /\ tracker.player = 0
    /\ tracker.cards_per_type = 2
    /\ tracker.last_action = <<Act(1, [kind |-> "RevealCard", card |-> "Contessa"])>>
    /\ revealed_cards = <<"Contessa">>
    /\ At(player_cards, 1) = <<"Ambassador">>
    /\ Len(tracker.game_states) = 3
    /\ \A i \in 1..3 : Len(known(At(tracker.game_states[i].player_cards, 1))) <= 1

\* the observation is an opponent taking a card from the deck, or returning
\* or showing a card to it
DeckInteraction(self, action_view) ==
    /\ action_view.player # self.player
    /\ action_view.action_type.kind \in {"TakeCard", "DropCard", "ShowCard"}

C30_Step ==
    \/ Len(tracker'.game_states) <= Len(tracker.game_states)
    \/ DeckInteraction(tracker', tracker'.last_action[1])

(***************************************************************************)
(* C30.  Tracker monotonic pruning: an observation never leaves the tracker *)
(* more beliefs than it had, except when the observation is an opponent     *)
(* taking a card from the deck, or returning or showing a card to it.       *)
(***************************************************************************)
C30_MonotonicPruning == [][C30_Step]_vars

\* the deal leaves no tracker more than four beliefs; an opponent took a
\* card from, returned or showed a card to the deck and the tracker has more
C30_Witness ==
    /\ ~panicked
    /\ tracker.last_action # <<>>
    /\ DeckInteraction(tracker, tracker.last_action[1])
    /\ Len(tracker.game_states) > 4

\* the update of the tracker by an observed action and the view after it
Observation(self, view, action) ==
    IF action.player = self.player
    THEN after_player_action(self, view, action)
    ELSE after_opponent_action(self, view, from_action(action))

\* the pruning at the end of an update, applied to a list of beliefs
Pruned(game_states, player) ==
    retain_valid(dedup(sort_game_states(game_states, player)))

\* the same observation a second time leaves no fewer beliefs
C31_StepAsStated ==
    \A action \in Actions :
        (~panicked' /\ \E shuffled \in Orders : Track(action, shuffled)) =>
            \E again \in {Observation(tracker',
                                      player_view(StateAfter, tracker.player),
                                      action)} :
                /\ ~again.panic
                /\ Len(again.self.game_states) >= Len(tracker'.game_states)

C31_Step ==
    \A action \in Actions :
        (~panicked' /\ \E shuffled \in Orders : Track(action, shuffled)) =>
            /\ Pruned(tracker'.game_states, tracker.player) = tracker'.game_states
            /\ \E again \in {Observation(tracker',
                                         player_view(StateAfter, tracker.player),
                                         action)} :
                   ~again.panic =>
                       Beliefs(again.self.game_states)
                           = AcceptedReplays(tracker',
                                             player_view(StateAfter, tracker.player),
                                             action)

NewSettings ==
    {[players_number |-> 2, cards_per_type |-> 1],
     [players_number |-> 2, cards_per_type |-> 2],
     [players_number |-> 2, cards_per_type |-> 3],
     [players_number |-> 3, cards_per_type |-> 2],
     [players_number |-> 3, cards_per_type |-> 3],
     [players_number |-> 4, cards_per_type |-> 3],
     [players_number |-> 5, cards_per_type |-> 2],
     [players_number |-> 5, cards_per_type |-> 3],
     [players_number |-> 6, cards_per_type |-> 3]}

\* the kinds of the cards of the hands given to CardsTracker::new
NewCards == {"Captain", "Duke"}

NewInit ==
    /\ settings \in NewSettings
    /\ tracker = NoTracker
    /\ panicked = FALSE
    /\ session = NoSession
    /\ stats = NoStats
    /\ state_type = Turn(0)
    /\ player_coins = <<>>
    /\ player_hands = <<>>
    /\ player_cards_counter = <<>>
    /\ player_cards = <<>>
    /\ deck = <<>>
    /\ revealed_cards = <<>>
    /\ acting = {}
    /\ turn = 0
    /\ last_error = "None"
    /\ revealed_by = <<>>
    /\ turn_player = 0
    /\ game = NoGame
    /\ accepted = 0
    /\ first_step = 0

\* one call of CardsTracker::new; player_cards keeps the hand it was given
New ==
    /\ tracker = NoTracker
    /\ \E player \in 0..(settings.players_number - 1), first, second \in NewCards :
           /\ first = second => settings.cards_per_type >= 2
           /\ tracker' = CardsTracker(player, <<first, second>>, settings)
           /\ player_cards' = [i \in 1..settings.players_number |->
                                  IF i - 1 = player THEN <<first, second>> ELSE <<>>]
    /\ UNCHANGED <<settings, panicked, state_type, player_coins, player_hands,
                   player_cards_counter, deck, revealed_cards, acting, turn,
                   last_error, revealed_by, turn_player, game, accepted,
                   first_step, session, stats>>

NewNext == New

NewSpec == NewInit /\ [][NewNext]_vars

\* the number of cards of the deck after the deal
DeckLen == settings.cards_per_type * Len(ALL_CARDS)
               - settings.players_number * CARDS_PER_PLAYER

\* the kinds of the cards of the hand given to the tracker
OwnKinds == {At(player_cards, tracker.player)[i] : i \in 1..2}

\* the copies of a kind that the player does not hold
Missing(card) == settings.cards_per_type - CountOf(At(player_cards, tracker.player), card)

\* the ways to place the missing copies of one kind: a number of copies for
\* each opponent and, at the index of the player, for the deck
PlacesOf(card) ==
    {f \in [0..(settings.players_number - 1) -> 0..Missing(card)] :
        Sum([i \in 1..settings.players_number |-> f[i - 1]]) = Missing(card)}

\* the lower and the higher kind of the hand in the order of Card
LowKind == CHOOSE card \in OwnKinds : \A other \in OwnKinds : CardOrd(card) <= CardOrd(other)

HighKind == CHOOSE card \in OwnKinds : \A other \in OwnKinds : CardOrd(card) >= CardOrd(other)

\* the number of cards a placement puts at a target
PlacedAt(p, t) ==
    IF LowKind = HighKind THEN p[LowKind][t] ELSE p[LowKind][t] + p[HighKind][t]

\* the cards a placement puts at a target, in the order of Card
PlacedCards(p, t) ==
    [i \in 1..PlacedAt(p, t) |-> IF i <= p[LowKind][t] THEN LowKind ELSE HighKind]

\* the ways to place the missing copies of all kinds of the hand: at most
\* two cards for an opponent, at most the cards of the deck for the deck
Placements ==
    {p \in {[card \in OwnKinds |-> IF card = LowKind THEN low ELSE high] :
               low \in PlacesOf(LowKind), high \in PlacesOf(HighKind)} :
        \A t \in 0..(settings.players_number - 1) :
            PlacedAt(p, t) <= (IF t = tracker.player THEN DeckLen
                               ELSE CARDS_PER_PLAYER)}

\* the belief of a placement
BeliefOf(p) ==
    [valid |-> TRUE,
     state_type |-> Turn(0),
     player_coins |-> [i \in 1..settings.players_number |-> 2],
     player_hands |-> [i \in 1..settings.players_number |-> 2],
     player_cards_counter |-> [i \in 1..settings.players_number |-> 2],
     player_cards |->
         [i \in 1..settings.players_number |->
             IF i - 1 = tracker.player
             THEN sort(At(player_cards, tracker.player))
             ELSE CardCollection(PlacedCards(p, i - 1), 2 - PlacedAt(p, i - 1))],
     deck |-> CardCollection(PlacedCards(p, tracker.player),
                             DeckLen - PlacedAt(p, tracker.player)),
     revealed_cards |-> <<>>]

(***************************************************************************)
(* C32.  Initial belief set: CardsTracker::new yields a sorted list without *)
(* duplicates that has exactly one belief for each way of placing the       *)
(* copies of the kinds of the hand that the player does not hold into the   *)
(* hands of the opponents (at most 2 cards each) or the deck (at most its   *)
(* size).  In every belief the hand of the player is the hand given, every  *)
(* player has 2 cards and 2 coins and the deck has cards_per_type * 5 - 2 * *)
(* players cards.  For 6 players and 3 cards per type these are 6 beliefs   *)
(* for a pair and 385 for two different cards.                              *)
(***************************************************************************)
C32_InitialBeliefs ==
    tracker # NoTracker =>
        /\ StrictlySorted(tracker.game_states, tracker.player)
        /\ Beliefs(tracker.game_states) = {BeliefOf(p) : p \in Placements}
        /\ Len(tracker.game_states) = Cardinality(Placements)
        /\ \A i \in 1..Len(tracker.game_states) :
               LET game_state == tracker.game_states[i]
               IN /\ Len(game_state.deck) = DeckLen
                  /\ \A j \in 1..settings.players_number :
                         /\ Len(game_state.player_cards[j]) = 2
                         /\ game_state.player_coins[j] = 2
        /\ settings = [players_number |-> 6, cards_per_type |-> 3] =>
               Len(tracker.game_states) = (IF LowKind = HighKind THEN 6 ELSE 385)

\* the tracker of a player of six with three cards per type who holds a
\* Duke and a Captain: 385 beliefs
C32_Witness ==
    /\ settings = [players_number |-> 6, cards_per_type |-> 3]
    /\ tracker # NoTracker
    /\ At(player_cards, tracker.player) = <<"Duke", "Captain">>
    /\ Len(tracker.game_states) = 385

\* GamePlayerCards::count_known, CardCollection::count_known: the cards of
\* the kind among the cards that are known
count_known(cards, card) == Len(SelectSeq(known(cards), LAMBDA c : c = card))

\* GameState::count_known: over the hands of the players
game_state_count_known(game_state, card) ==
    Sum([i \in 1..Len(game_state.player_cards) |->
            count_known(game_state.player_cards[i], card)])

\* GameState::is_card_hold_by_opponent
is_card_hold_by_opponent(game_state, player, card) ==
    \E index \in 0..(Len(game_state.player_cards) - 1) :
        /\ index # player
        /\ contains_known(At(game_state.player_cards, index), card)

\* the card claimed by the last action; "None" for an action without claim
claimed_card(action_type) ==
    CASE action_type.kind = "Tax" -> "Duke"
      [] action_type.kind = "Assassinate" -> "Assassin"
      [] action_type.kind = "Exchange" -> "Ambassador"
      [] action_type.kind = "Steal" -> "Captain"
      [] action_type.kind = "BlockForeignAid" -> "Duke"
      [] action_type.kind = "BlockAssassination" -> "Contessa"
      [] action_type.kind = "BlockSteal" -> action_type.card
      [] OTHER -> "None"

\* GameState::is_safe_action_type; last_action is a list of at most one
\* ActionView and the Challenge of no action has no value (unwrap of None)
is_safe_action_type(game_state, player, action_type, last_action, cards_per_type) ==
    CASE action_type.kind = "ForeignAid" ->
            /\ game_state_count_known(game_state, "Duke") = cards_per_type
            /\ ~is_card_hold_by_opponent(game_state, player, "Duke")
      [] action_type.kind = "Assassinate" ->
            /\ game_state_count_known(game_state, "Duke") = cards_per_type
            /\ ~is_card_hold_by_opponent(game_state, player, "Contessa")
      [] action_type.kind = "Steal" ->
            /\ game_state_count_known(game_state, "Ambassador") = cards_per_type
            /\ is_card_hold_by_opponent(game_state, player, "Ambassador")
            /\ game_state_count_known(game_state, "Captain") = cards_per_type
            /\ is_card_hold_by_opponent(game_state, player, "Captain")
      [] action_type.kind = "Challenge" ->
            \/ claimed_card(last_action[1].action_type) = "None"
            \/ /\ ~contains_known(At(game_state.player_cards, last_action[1].player),
                                  claimed_card(last_action[1].action_type))
               /\ game_state_count_known(
                      game_state, claimed_card(last_action[1].action_type))
                      = cards_per_type
      [] OTHER -> TRUE

\* the copies of the kind at a known position of the belief: in the hand of
\* a player or in the deck
KnownPositions(game_state, card) ==
    game_state_count_known(game_state, card) + count_known(game_state.deck, card)

\* the judgement of ForeignAid by the tracker for a belief
ForeignAidSafe(game_state) ==
    is_safe_action_type(game_state, tracker.player, [kind |-> "ForeignAid"],
                        tracker.last_action, tracker.cards_per_type)

(***************************************************************************)
(* C33.  Safety of ForeignAid: for a belief, ForeignAid is judged safe      *)
(* exactly when every one of the cards_per_type copies of Duke is at a      *)
(* known position of the belief, in the hand of a player or in the deck,    *)
(* and the known cards of no opponent include a Duke.                       *)
(***************************************************************************)
C33_ForeignAidSafety ==
    \A i \in 1..Len(tracker.game_states) :
        ForeignAidSafe(tracker.game_states[i])
            <=> /\ KnownPositions(tracker.game_states[i], "Duke") = tracker.cards_per_type
                /\ ~is_card_hold_by_opponent(tracker.game_states[i], tracker.player,
                                             "Duke")

(***************************************************************************)
(* C34.  Physical card conservation: in every reachable state, the states   *)
(* of a challenge and of an exchange included, the sum of the card counters *)
(* of all players plus the number of revealed cards plus the size of the    *)
(* deck is cards_per_type * 5, and the card counter of every player is the  *)
(* number of cards in its hand.                                             *)
(***************************************************************************)
C34_PhysicalCards ==
    /\ Sum(player_cards_counter) + Len(revealed_cards) + Len(deck) = TotalCards
    /\ \A p \in Players : At(player_cards_counter, p) = count(At(player_cards, p))

\* the player of an exchange holds the two cards it took and its own two
C34_Witness ==
    /\ state_type.type = "TookCards"
    /\ At(player_cards_counter, state_type.player) = 4
    /\ At(player_hands, state_type.player) = 2
    /\ Len(deck) = TotalCards - 2 * settings.players_number - 2

\* the player who has to show, reveal or drop a card in the state, if any
CardMovers(st) ==
    CASE st.type \in {"LostInfluence", "TookCards", "DroppedCard"} -> {st.player}
      [] st.type = "Challenge" /\ st.state.type = "Initial" -> {st.state.target}
      [] st.type = "Challenge" /\ st.state.type = "ShownCard" -> {st.state.initiator}
      [] OTHER -> {}

\* the state asks for a TakeCard
NeedsDeck(st) ==
    \/ st.type = "NeedCards"
    \/ st.type = "Challenge" /\ st.state.type = "DeckShuffled"

\* some action of an active player is accepted
SomeAccepted ==
    \E action \in Actions :
        /\ Active(action.player)
        /\ \E r \in Outcomes(action) : r.err = "Ok"

(***************************************************************************)
(* C35.  No stuck game: in every reachable state in which at least two      *)
(* players have a card left, some action of some active player is accepted  *)
(* by play_action; the player who has to show, reveal or drop a card is     *)
(* active and holds a card, and the deck is not empty when a TakeCard is    *)
(* required.                                                                *)
(***************************************************************************)
C35_NoStuckGame ==
    Cardinality({p \in Players : Active(p)}) >= 2 =>
        /\ SomeAccepted
        /\ \A p \in CardMovers(state_type) : Active(p) /\ count(Hand(p)) > 0
        /\ NeedsDeck(state_type) => count(deck) > 0

\* the target of a pending assassination lost its last card in the challenge
\* of the assassination, two other players have cards, and the PassBlock of
\* the assassin is accepted
C35_Witness ==
    /\ Cardinality({p \in Players : Active(p)}) >= 2
    /\ state_type.type = "Assassination"
    /\ ~state_type.can_challenge
    /\ ~Active(state_type.target)
    /\ play_action(Act(state_type.player, [kind |-> "PassBlock"]), State, deck).err = "Ok"

\* how far the state type is from the end of its turn when no card is lost;
\* a challenge comes after the claim or block it challenges and before what
\* follows that claim or block
RECURSIVE Phase(_)
Phase(st) ==
    CASE st.type = "Turn" -> 400
      [] st.type \in {"ForeignAid", "Tax", "Exchange"} -> 300
      [] st.type \in {"Assassination", "Steal"} ->
            IF st.can_challenge THEN 300 ELSE 280
      [] st.type \in {"BlockForeignAid", "BlockAssassination", "BlockSteal"} -> 250
      [] st.type = "Challenge" ->
            Phase(st.source)
                - (CASE st.state.type = "Initial" -> 1
                     [] st.state.type = "ShownCard" -> 2
                     [] st.state.type = "InitiatorRevealedCard" -> 3
                     [] st.state.type = "DeckShuffled" -> 4
                     [] OTHER -> 5)
      [] st.type = "NeedCards" -> 100 + st.count
      [] st.type = "TookCards" -> 20 + st.count
      [] st.type = "DroppedCard" -> 20 + st.left
      [] st.type = "LostInfluence" -> 1

\* the variant of a turn: the influence left in the game, then the phase
Rank(hands, st) == Sum(hands) * 1000 + Phase(st)

(***************************************************************************)
(* C36.  Every turn ends: from every reachable state every sequence of      *)
(* accepted actions reaches a Turn state after finitely many actions; no    *)
(* run of accepted actions stays for ever in the states of a claim, block,  *)
(* challenge, exchange or lost influence.  Every accepted action that does  *)
(* not end the turn lowers a positive number: it takes an influence from a  *)
(* player (as each defeated block does) or moves the state to a later phase *)
(* of the turn.                                                             *)
(***************************************************************************)
C36_EveryTurnEnds ==
    \A action \in Actions :
        \A r \in Outcomes(action) :
            (r.err = "Ok" /\ r.s.state_type.type # "Turn") =>
                /\ Rank(r.s.player_hands, r.s.state_type)
                       < Rank(player_hands, state_type)
                /\ Rank(r.s.player_hands, r.s.state_type) > 0

\* a foreign aid is pending again after two of its blocks were defeated by
\* a challenge: two cards are revealed within the turn
C36_Witness ==
    /\ state_type.type = "ForeignAid"
    /\ turn = 0
    /\ Len(revealed_cards) >= 2

(***************************************************************************)
(* C37.  InvalidSource is unreachable: in every state reachable from an     *)
(* initial Turn state the source recorded in a Challenge is a Tax, an       *)
(* Exchange, an Assassination, a Steal, a BlockForeignAid, a                *)
(* BlockAssassination or a BlockSteal, so no call of play_action returns    *)
(* InvalidSource and no step of a challenge fails after it changed cards.   *)
(***************************************************************************)
C37_InvalidSourceUnreachable ==
    /\ state_type.type = "Challenge" =>
           state_type.source.type \in ActionSources \cup BlockSources
    /\ \A action \in Actions :
           \A r \in Outcomes(action) :
               /\ r.err # "InvalidSource"
               /\ (state_type.type = "Challenge" /\ r.err # "Ok") => r.s = State

\* the challenged player of a block has shown its card and the deck is
\* shuffled: its TakeCard changes cards and then resumes from the source
C37_Witness ==
    /\ state_type.type = "Challenge"
    /\ state_type.state.type = "DeckShuffled"
    /\ state_type.source.type \in BlockSources
    /\ \E r \in Outcomes(Act(state_type.state.target, [kind |-> "TakeCard"])) :
           r.err = "Ok" /\ r.s.deck # deck

(***************************************************************************)
(* C38.  The DroppedCard state type is never reached: no sequence of        *)
(* accepted actions from an initial Turn state produces a DroppedCard       *)
(* state, and every card return of an exchange happens in TookCards.        *)
(***************************************************************************)
C38_DroppedCardUnreached ==
    /\ state_type.type # "DroppedCard"
    /\ \A action \in Actions :
           \A r \in Outcomes(action) :
               r.err = "Ok" =>
                   /\ r.s.state_type.type # "DroppedCard"
                   /\ action.action_type.kind = "DropCard" =>
                          state_type.type = "TookCards"

\* the player of an exchange has taken two cards; the return of the first
\* is accepted and leaves TookCards with one card to return
C38_Witness ==
    /\ state_type.type = "TookCards"
    /\ state_type.count = 2
    /\ \E card \in Card \ {"Unknown"} :
           \E r \in Outcomes(Act(state_type.player, [kind |-> "DropCard", card |-> card])) :
               r.err = "Ok" /\ r.s.state_type = TookCards(state_type.player, 1)

(***************************************************************************)
(* The interactive session (interactive.rs:447-495): the GameState of the   *)
(* session (interactive.rs:295-308), the bot, and the history of the        *)
(* (game_state, bot) pairs that undo returns to.  The hand of the player of *)
(* the session is Player(cards), the hand of an opponent is                 *)
(* Opponent(count), and the deck is its size.  The bot is what it was given *)
(* so far: the observed (view, action) pairs of after_player_action and     *)
(* after_opponent_action, and the number of draws get_action made from its  *)
(* rng.  accepted_before is not a field of the program: it is the stack of  *)
(* the (game_state, bot) pairs as they were before each accepted play       *)
(* command that was not undone yet.                                         *)
(***************************************************************************)
Opponent(number) == [kind |-> "Opponent", count |-> number]

PlayerHand(cards) == [kind |-> "Player", cards |-> cards]

Unknowns(number) == [i \in 1..number |-> "Unknown"]

make_initial_game_state(sett, player, cards) ==
    [step |-> 0,
     turn |-> 0,
     round |-> 0,
     player |-> player,
     state_type |-> Turn(0),
     player_coins |-> [i \in 1..sett.players_number |-> INITIAL_COINS],
     player_hands |-> [i \in 1..sett.players_number |-> CARDS_PER_PLAYER],
     player_cards_counter |-> [i \in 1..sett.players_number |-> CARDS_PER_PLAYER],
     player_cards |-> [i \in 1..sett.players_number |->
                          IF i - 1 = player THEN PlayerHand(cards)
                          ELSE Opponent(CARDS_PER_PLAYER)],
     revealed_cards |-> <<>>,
     deck |-> sett.cards_per_type * Len(ALL_CARDS)
                  - CARDS_PER_PLAYER * sett.players_number]

\* GameState::player_view (interactive.rs:311-330)
game_state_player_view(game_state) ==
    [step |-> game_state.step,
     turn |-> game_state.turn,
     round |-> game_state.round,
     player |-> game_state.player,
     coins |-> At(game_state.player_coins, game_state.player),
     cards |-> At(game_state.player_cards, game_state.player).cards,
     state_type |-> game_state.state_type,
     player_coins |-> game_state.player_coins,
     player_hands |-> game_state.player_hands,
     player_cards |-> game_state.player_cards_counter,
     revealed_cards |-> game_state.revealed_cards,
     deck |-> game_state.deck]

\* PlayerCards of GamePlayerCards (interactive.rs:379-409) as play_action
\* uses it: Opponent(count) has any card while count > 0, drops it by
\* count - 1 and adds one by count + 1.  As a Vec<Card> of count cards it
\* holds the card of the action when the opponent is the acting player.
hand_cards(hand, is_acting, action_type) ==
    IF hand.kind = "Player" THEN hand.cards
    ELSE IF /\ is_acting
            /\ action_type.kind \in {"ShowCard", "RevealCard", "DropCard"}
            /\ hand.count > 0
         THEN sort(Append(Unknowns(hand.count - 1), action_type.card))
         ELSE Unknowns(hand.count)

played_hand(hand, cards) ==
    IF hand.kind = "Player" THEN PlayerHand(cards) ELSE Opponent(Len(cards))

\* Deck of GameDeck (interactive.rs:413-426) and of PopGameDeck
\* (interactive.rs:429-445): a deck of size cards, with the card that
\* pop_card returns on its top
deck_cards(size, top) ==
    IF size > 0 /\ top # <<>> THEN Append(Unknowns(size - 1), top[1])
    ELSE Unknowns(size)

\* play (interactive.rs:552-558): play_action over the fields of the
\* GameState, with ConstRng, whose shuffle leaves the deck as it is
session_play(game_state, action, top) ==
    Value({play_action(action,
                [state_type |-> game_state.state_type,
                 player_coins |-> game_state.player_coins,
                 player_hands |-> game_state.player_hands,
                 player_cards_counter |-> game_state.player_cards_counter,
                 player_cards |->
                     collect([i \in 1..Len(game_state.player_cards) |->
                         hand_cards(game_state.player_cards[i],
                                    i - 1 = action.player, action.action_type)]),
                 deck |-> cards_of_deck,
                 revealed_cards |-> game_state.revealed_cards],
                cards_of_deck) :
              cards_of_deck \in {deck_cards(game_state.deck, top)}})

\* GameState::advance (interactive.rs:362-371)
advance(game_state) ==
    IF game_state.state_type.type = "Turn"
    THEN [game_state EXCEPT
             !.step = @ + 1,
             !.turn = @ + 1,
             !.round = IF game_state.player >= game_state.state_type.player
                       THEN @ + 1 ELSE @]
    ELSE [game_state EXCEPT !.step = @ + 1]

\* the fields play_action was given, as it left them
played_game_state(game_state, r) ==
    [game_state EXCEPT
        !.state_type = r.s.state_type,
        !.player_coins = r.s.player_coins,
        !.player_hands = r.s.player_hands,
        !.player_cards_counter = r.s.player_cards_counter,
        !.player_cards = collect([i \in 1..Len(game_state.player_cards) |->
                                     played_hand(game_state.player_cards[i],
                                                 r.s.player_cards[i])]),
        !.deck = Len(r.s.deck),
        !.revealed_cards = r.s.revealed_cards]

\* GameState::with_default (interactive.rs:332-346) and
\* GameState::with_pop_deck (interactive.rs:347-360): advance only after Ok
with_deck(game_state, action, top) ==
    Value({[err |-> r.err,
            game_state |-> IF r.err = "Ok"
                           THEN advance(played_game_state(game_state, r))
                           ELSE played_game_state(game_state, r)] :
              r \in {session_play(game_state, action, top)}})

interactive_with_default(game_state, action) == with_deck(game_state, action, <<>>)

with_pop_deck(game_state, card, action) == with_deck(game_state, action, <<card>>)

(***************************************************************************)
(* The play commands (interactive.rs:165-177, 227-248): the player and the  *)
(* targets are names, block and take carry a card.  Name n of a session of  *)
(* n players is a name no player has.                                       *)
(***************************************************************************)
InteractiveActionType(n) ==
    {t \in ActionType(n + 1) :
        t.kind \notin {"BlockForeignAid", "BlockAssassination", "BlockSteal",
                       "TakeCard"}}
        \cup {[kind |-> "Block", card |-> c] : c \in Card}
        \cup {[kind |-> "TakeCard", card |-> c] : c \in Card}

InteractiveAction(n) ==
    {[player |-> p, action_type |-> t] : p \in 0..n, t \in InteractiveActionType(n)}

\* get_player_index (interactive.rs:560-565)
get_player_index(name, n) == IF name < n THEN <<name>> ELSE <<>>

\* the bot after Bot::after_player_action or Bot::after_opponent_action
observed(bot, game_state, action) ==
    [bot EXCEPT
        !.observed =
            Append(@, [view |-> game_state_player_view(game_state),
                       action |-> IF game_state.player = action.player
                                  THEN action ELSE from_action(action)])]

Handled(game_state, bot) == [err |-> "Ok", game_state |-> game_state, bot |-> bot]

Refused(game_state, bot, e) == [err |-> e, game_state |-> game_state, bot |-> bot]

\* the end of both paths of handle_game_action: the error of the wrapper
\* is returned, or the bot is told of the action
handled(played, bot, action) ==
    IF played.err # "Ok" THEN Refused(played.game_state, bot, played.err)
    ELSE Handled(played.game_state, observed(bot, played.game_state, action))

\* handle_game_action (interactive.rs:497-550)
handle_game_action(game_action, game_state, bot) ==
    LET n == Len(game_state.player_hands)
        kind == game_action.action_type.kind
        player == get_player_index(game_action.player, n)
        target == IF kind \in TargetKinds
                  THEN get_player_index(game_action.action_type.target, n)
                  ELSE <<0>>
    IN IF player = <<>> \/ target = <<>>
       THEN Refused(game_state, bot, "UnknownName")
       ELSE IF kind = "Block" /\ game_action.action_type.card \in {"Unknown", "Assassin"}
       THEN Refused(game_state, bot, "InvalidBlockCard")
       ELSE IF kind = "TakeCard"
       THEN IF player[1] = game_state.player /\ game_action.action_type.card = "Unknown"
            THEN Refused(game_state, bot, "UnknownCardTaken")
            ELSE handled(with_pop_deck(game_state, game_action.action_type.card,
                                       [player |-> player[1],
                                        action_type |-> [kind |-> "TakeCard"]]),
                         bot,
                         [player |-> player[1], action_type |-> [kind |-> "TakeCard"]])
       ELSE LET action ==
                    [player |-> player[1],
                     action_type |->
                         IF kind = "Block"
                         THEN CASE game_action.action_type.card = "Duke" ->
                                       [kind |-> "BlockForeignAid"]
                                [] game_action.action_type.card = "Contessa" ->
                                       [kind |-> "BlockAssassination"]
                                [] OTHER ->
                                       [kind |-> "BlockSteal",
                                        card |-> game_action.action_type.card]
                         ELSE game_action.action_type]
            IN handled(interactive_with_default(game_state, action), bot, action)

\* one (game_state, bot) pair of the history
Snapshot(game_state, bot) == [game_state |-> game_state, bot |-> bot]

\* the settings, the player and the cards a session is started with
SessionSettings == {[players_number |-> 3, cards_per_type |-> 2]}

SessionCards == {<<"Assassin", "Duke">>, <<"Captain", "Captain">>}

SessionInit ==
    /\ settings \in SessionSettings
    /\ \E player \in 0..(settings.players_number - 1), cards \in SessionCards :
           session = [running |-> TRUE,
                      game_state |-> make_initial_game_state(settings, player, cards),
                      bot |-> [observed |-> <<>>, drawn |-> 0],
                      history |-> <<>>,
                      accepted_before |-> <<>>,
                      commands |-> 0,
                      last_command |-> "Start"]
    /\ stats = NoStats
    /\ tracker = NoTracker
    /\ panicked = FALSE
    /\ state_type = Turn(0)
    /\ player_coins = <<>>
    /\ player_hands = <<>>
    /\ player_cards_counter = <<>>
    /\ player_cards = <<>>
    /\ deck = <<>>
    /\ revealed_cards = <<>>
    /\ acting = {}
    /\ turn = 0
    /\ last_error = "None"
    /\ revealed_by = <<>>
    /\ turn_player = 0
    /\ game = NoGame
    /\ accepted = 0
    /\ first_step = 0

SessionUnchanged ==
    UNCHANGED <<state_type, player_coins, player_hands, player_cards_counter,
                player_cards, deck, revealed_cards, settings, acting, turn,
                last_error, revealed_by, turn_player, game, accepted,
                first_step, tracker, panicked, stats>>

\* Command::Play (interactive.rs:453-459): the pair is pushed to the history
\* before the action is handled, and stays there when it is refused
PlayCommand(game_action) ==
    /\ session.commands < MaxCommands
    /\ \E r \in {handle_game_action(game_action, session.game_state, session.bot)} :
           session' = [session EXCEPT
               !.history = Append(@, Snapshot(session.game_state, session.bot)),
               !.game_state = r.game_state,
               !.bot = r.bot,
               !.accepted_before =
                   IF r.err = "Ok"
                   THEN Append(@, Snapshot(session.game_state, session.bot))
                   ELSE @,
               !.commands = @ + 1,
               !.last_command = IF r.err = "Ok" THEN "Play" ELSE "RefusedPlay"]
    /\ SessionUnchanged

\* Command::Undo (interactive.rs:460-467)
UndoCommand ==
    /\ session.commands < MaxCommands
    /\ session' =
           IF session.history # <<>>
           THEN [session EXCEPT
                    !.game_state = session.history[Len(session.history)].game_state,
                    !.bot = session.history[Len(session.history)].bot,
                    !.history = SubSeq(@, 1, Len(@) - 1),
                    !.accepted_before =
                        IF @ = <<>> THEN @ ELSE SubSeq(@, 1, Len(@) - 1),
                    !.commands = @ + 1,
                    !.last_command = "Undo"]
           ELSE [session EXCEPT
                    !.commands = @ + 1,
                    !.last_command = "NothingToUndo"]
    /\ SessionUnchanged

\* Command::Bot(GetAction) (interactive.rs:481-484): get_action draws from
\* the rng of the bot
BotCommand ==
    /\ session.commands < MaxCommands
    /\ session' = [session EXCEPT
                      !.bot.drawn = @ + 1,
                      !.commands = @ + 1,
                      !.last_command = "Bot"]
    /\ SessionUnchanged

\* Command::Help, State, Available and the other commands
\* (interactive.rs:451, 468-474, 491)
ViewCommand ==
    /\ session.commands < MaxCommands
    /\ session' = [session EXCEPT !.commands = @ + 1, !.last_command = "View"]
    /\ SessionUnchanged

SessionNext ==
    \/ \E game_action \in InteractiveAction(Len(session.game_state.player_hands)) :
           PlayCommand(game_action)
    \/ UndoCommand
    \/ BotCommand
    \/ ViewCommand

SessionSpec == SessionInit /\ [][SessionNext]_vars

\* C39: undo restores the game state and the bot to exactly what they were
\* before the most recent accepted play command that was not undone yet; a
\* refused play command does not change what the next undo restores
C39_UndoStep ==
    (/\ session'.commands = session.commands + 1
     /\ session'.last_command = "Undo"
     /\ session.accepted_before # <<>>) =>
        /\ session'.game_state =
               session.accepted_before[Len(session.accepted_before)].game_state
        /\ session'.bot = session.accepted_before[Len(session.accepted_before)].bot

C39_UndoRestoresAcceptedPlay == [][C39_UndoStep]_vars

(***************************************************************************)
(* collect_random_games_stats (stats.rs:21-59).  Each worker thread loops:  *)
(* under the lock of the statistics it leaves the loop when games >= number *)
(* and counts its game otherwise; it draws the seed of the game under the   *)
(* lock of the shared rng; it runs the game; under the lock of the          *)
(* statistics it pushes the result to the lists.  The main thread joins the *)
(* threads in the order it spawned them and returns a clone of the          *)
(* statistics.  A step of a thread is what it does under one lock, or the   *)
(* game it runs.  The k-th value drawn from the rng is k, and the game of   *)
(* seed k has the result k in each list.  A game can end in a panic         *)
(* (run.rs:78); the join of its thread then panics (stats.rs:55).           *)
(***************************************************************************)
collect_random_games_stats(number, workers) ==
    [running |-> TRUE,
     number |-> number,
     workers |-> workers,
     games |-> 0,
     steps |-> <<>>,
     turns |-> <<>>,
     rounds |-> <<>>,
     winner_bot_type |-> <<>>,
     rng |-> 0,
     pc |-> [w \in 1..workers |-> "count"],
     seed |-> [w \in 1..workers |-> 0],
     result |-> [w \in 1..workers |-> 0],
     joined |-> 0,
     main |-> "joining"]

\* the first lock scope of the loop without the games it may count
count_game_past_number(self, w) ==
    IF self.games > self.number
    THEN [self EXCEPT !.pc[w] = "done"]
    ELSE [self EXCEPT !.games = @ + 1, !.pc[w] = "seed"]

\* the first lock scope of the loop (stats.rs:32-38)
count_game(self, w) ==
    IF self.games >= self.number
    THEN [self EXCEPT !.pc[w] = "done"]
    ELSE [self EXCEPT !.games = @ + 1, !.pc[w] = "seed"]

\* the last lock scope of the loop (stats.rs:41-49)
push_result(self, w) ==
    [self EXCEPT
        !.steps = Append(@, self.result[w]),
        !.turns = Append(@, self.result[w]),
        !.rounds = Append(@, self.result[w]),
        !.winner_bot_type = Append(@, self.result[w]),
        !.pc[w] = "count"]

StatsInit ==
    /\ \E number \in 0..MaxNumber, workers \in 0..MaxWorkers :
           stats = collect_random_games_stats(number, workers)
    /\ session = NoSession
    /\ settings = [players_number |-> 2, cards_per_type |-> 2]
    /\ tracker = NoTracker
    /\ panicked = FALSE
    /\ state_type = Turn(0)
    /\ player_coins = <<>>
    /\ player_hands = <<>>
    /\ player_cards_counter = <<>>
    /\ player_cards = <<>>
    /\ deck = <<>>
    /\ revealed_cards = <<>>
    /\ acting = {}
    /\ turn = 0
    /\ last_error = "None"
    /\ revealed_by = <<>>
    /\ turn_player = 0
    /\ game = NoGame
    /\ accepted = 0
    /\ first_step = 0

StatsUnchanged ==
    UNCHANGED <<state_type, player_coins, player_hands, player_cards_counter,
                player_cards, deck, revealed_cards, settings, acting, turn,
                last_error, revealed_by, turn_player, game, accepted,
                first_step, tracker, panicked, session>>

\* a thread runs until the main thread has returned or panicked
Running(w) == stats.main = "joining" /\ w \in 1..stats.workers

CountGame(w) ==
    /\ Running(w)
    /\ stats.pc[w] = "count"
    /\ stats' = count_game(stats, w)
    /\ StatsUnchanged

\* worker_rng.lock().unwrap().gen::<u64>() (stats.rs:39)
DrawSeed(w) ==
    /\ Running(w)
    /\ stats.pc[w] = "seed"
    /\ stats' = [stats EXCEPT !.rng = @ + 1, !.seed[w] = stats.rng + 1, !.pc[w] = "game"]
    /\ StatsUnchanged

\* run_game_with_bots (stats.rs:40) returns the result of the game
RunGame(w) ==
    /\ Running(w)
    /\ stats.pc[w] = "game"
    /\ stats' = [stats EXCEPT !.result[w] = stats.seed[w], !.pc[w] = "push"]
    /\ StatsUnchanged

\* run_game_with_bots panics and the thread ends
GamePanics(w) ==
    /\ Running(w)
    /\ stats.pc[w] = "game"
    /\ stats' = [stats EXCEPT !.pc[w] = "panicked"]
    /\ StatsUnchanged

PushResult(w) ==
    /\ Running(w)
    /\ stats.pc[w] = "push"
    /\ stats' = push_result(stats, w)
    /\ StatsUnchanged

\* thread.join().unwrap() of the next thread (stats.rs:54-56)
Join ==
    /\ stats.main = "joining"
    /\ stats.joined < stats.workers
    /\ stats.pc[stats.joined + 1] \in {"done", "panicked"}
    /\ stats' = IF stats.pc[stats.joined + 1] = "panicked"
                THEN [stats EXCEPT !.main = "panicked"]
                ELSE [stats EXCEPT !.joined = @ + 1]
    /\ StatsUnchanged

\* the clone of the statistics is returned (stats.rs:57-58)
Return ==
    /\ stats.main = "joining"
    /\ stats.joined = stats.workers
    /\ stats' = [stats EXCEPT !.main = "returned"]
    /\ StatsUnchanged

StatsNext ==
    \/ \E w \in 1..stats.workers :
           CountGame(w) \/ DrawSeed(w) \/ RunGame(w) \/ GamePanics(w) \/ PushResult(w)
    \/ Join
    \/ Return

StatsSpec == StatsInit /\ [][StatsNext]_vars

\* each of the games 1..number is once in the list
EachGameOnce(list, number) ==
    /\ Len(list) = number
    /\ \A k \in 1..number : Cardinality({i \in 1..Len(list) : list[i] = k}) = 1

\* C40: with at least one worker, under every interleaving of the worker
\* threads, when collect_random_games_stats returns, games equals number,
\* the steps, turns, rounds and winner lists each have exactly number
\* entries, one of each game and none twice, and exactly number seeds were
\* drawn from the shared generator
C40_ExactlyNumberGames ==
    (stats.running /\ stats.main = "returned" /\ stats.workers >= 1) =>
        /\ stats.games = stats.number
        /\ stats.rng = stats.number
        /\ EachGameOnce(stats.steps, stats.number)
        /\ EachGameOnce(stats.turns, stats.number)
        /\ EachGameOnce(stats.rounds, stats.number)
        /\ EachGameOnce(stats.winner_bot_type, stats.number)

\* the statistics were returned after several workers played the games and
\* pushed their results in another order than they drew the seeds
C40_Witness ==
    /\ stats.running
    /\ stats.main = "returned"
    /\ stats.workers >= 2
    /\ stats.number = MaxNumber
    /\ stats.games = MaxNumber
    /\ \E i \in 1..(Len(stats.steps) - 1) : stats.steps[i] > stats.steps[i + 1]

====
